---- MODULE Spec2Model ----
(***************************************************************************)
(* One SMTP session of gopistolet: the conn of src/smtp/smtp.go (the       *)
(* smtper variant, lines 586-1325), served by conn.serve for an MTA or an  *)
(* MSA server, and the Conn of the same file whose serve handles every     *)
(* command inline (lines 1417-1974).  Lines are sequences of one-character *)
(* strings, so that parseLine and the MAIL/RCPT regular expressions are    *)
(* computed as the code computes them.                                     *)
(***************************************************************************)
EXTENDS Integers, Sequences, FiniteSets, TLC

VARIABLES
    role,       \* srv.smtper: "MTA" or "MSA"; "inline" for the Conn whose
                \* serve handles the commands itself
    tlsConfig,  \* srv.tlsConfig != nil
    script,     \* what the client wrote up front (<<>>: an interactive client)
    rx,         \* lines written by the client and not yet read through conn.br
    eof,        \* the client's stream has ended (or the transport failed)
    wire,       \* reply lines written to conn.c and not yet read by the client
    closed,     \* conn.c.Close() was called
    pc,         \* where the session's goroutine is: "start", or the read it
                \* blocks in ("cmd", "data", "authUser", "authPass"), or
                \* "handshake", or "lookup" while Conn.serve waits for the
                \* resolver, or "done" once serve has returned (no
                \* statement of conn.serve leads there; Conn.serve
                \* returns after QUIT and out of its AUTH case)
    line,       \* serve's local `line`: the result of its last ReadString
    data,       \* handleDATA's local `data`: the result of its last ReadString
    from,       \* conn.from (nil: unset)
    to,         \* conn.to
    msg,        \* conn.msg
    tls,        \* conn.tls
    username,   \* the local `username` of the AUTH code: the decoded bytes
                \* of the first credential line, while the exchange runs
    auth,       \* Conn.auth (the inline serve only; conn has no such field)
    inp,        \* a call of a function of the packages: what it is called with
    loc,        \* its receiver and locals while it runs
    ret         \* what it has returned (<<>>: nothing yet)

\* a session
session == <<role, tlsConfig, script, rx, eof, wire, closed, pc, line, data,
             from, to, msg, tls, username, auth>>

\* a call of a function outside of a session
lib == <<inp, loc, ret>>

vars == <<session, lib>>

conf == <<role, tlsConfig, script>>
envelope == <<from, to, msg>>

-----------------------------------------------------------------------------
(* Bounds of the model.                                                    *)

\* the client sends no RCPT once conn.to holds this many addresses
MaxRcpts == 2
\* the client sends no further body line once conn.msg holds this many lines
MaxBodyLines == 2

\* the longest command line, in octets, line end included
MaxCmdLine == 512

\* the streams given to the readers hold at most this many bytes, behind
\* what fills a buffer
MaxStream == 5

-----------------------------------------------------------------------------
(* Strings.                                                                *)

CR == "\r"
LF == "\n"
SP == " "

LowerCase == <<"a","b","c","d","e","f","g","h","i","j","k","l","m",
               "n","o","p","q","r","s","t","u","v","w","x","y","z">>
UpperCase == <<"A","B","C","D","E","F","G","H","I","J","K","L","M",
               "N","O","P","Q","R","S","T","U","V","W","X","Y","Z">>
Digits == {"0","1","2","3","4","5","6","7","8","9"}

\* A string is a tuple of its runes.  A rune of ASCII is the character
\* itself; a rune outside ASCII is written the way fmt's %U writes it,
\* "U+00E9" for e with acute, so that every character of this module is one
\* of ASCII.  Sizes in bytes are taken of ASCII strings only.

\* unicode.CaseRanges as far as ToUpper reads it: every rune outside ASCII
\* that has an upper case, with that upper case (Unicode 14), the ranges
\* written out rune by rune.  U+0131 and U+017F have theirs in ASCII.
CaseRanges ==
    {
     <<"U+00B5", "U+039C">>, <<"U+00E0", "U+00C0">>, <<"U+00E1", "U+00C1">>,
     <<"U+00E2", "U+00C2">>, <<"U+00E3", "U+00C3">>, <<"U+00E4", "U+00C4">>,
     <<"U+00E5", "U+00C5">>, <<"U+00E6", "U+00C6">>, <<"U+00E7", "U+00C7">>,
     <<"U+00E8", "U+00C8">>, <<"U+00E9", "U+00C9">>, <<"U+00EA", "U+00CA">>,
     <<"U+00EB", "U+00CB">>, <<"U+00EC", "U+00CC">>, <<"U+00ED", "U+00CD">>,
     <<"U+00EE", "U+00CE">>, <<"U+00EF", "U+00CF">>, <<"U+00F0", "U+00D0">>,
     <<"U+00F1", "U+00D1">>, <<"U+00F2", "U+00D2">>, <<"U+00F3", "U+00D3">>,
     <<"U+00F4", "U+00D4">>, <<"U+00F5", "U+00D5">>, <<"U+00F6", "U+00D6">>,
     <<"U+00F8", "U+00D8">>, <<"U+00F9", "U+00D9">>, <<"U+00FA", "U+00DA">>,
     <<"U+00FB", "U+00DB">>, <<"U+00FC", "U+00DC">>, <<"U+00FD", "U+00DD">>,
     <<"U+00FE", "U+00DE">>, <<"U+00FF", "U+0178">>, <<"U+0101", "U+0100">>,
     <<"U+0103", "U+0102">>, <<"U+0105", "U+0104">>, <<"U+0107", "U+0106">>,
     <<"U+0109", "U+0108">>, <<"U+010B", "U+010A">>, <<"U+010D", "U+010C">>,
     <<"U+010F", "U+010E">>, <<"U+0111", "U+0110">>, <<"U+0113", "U+0112">>,
     <<"U+0115", "U+0114">>, <<"U+0117", "U+0116">>, <<"U+0119", "U+0118">>,
     <<"U+011B", "U+011A">>, <<"U+011D", "U+011C">>, <<"U+011F", "U+011E">>,
     <<"U+0121", "U+0120">>, <<"U+0123", "U+0122">>, <<"U+0125", "U+0124">>,
     <<"U+0127", "U+0126">>, <<"U+0129", "U+0128">>, <<"U+012B", "U+012A">>,
     <<"U+012D", "U+012C">>, <<"U+012F", "U+012E">>, <<"U+0131", "I">>,
     <<"U+0133", "U+0132">>, <<"U+0135", "U+0134">>, <<"U+0137", "U+0136">>,
     <<"U+013A", "U+0139">>, <<"U+013C", "U+013B">>, <<"U+013E", "U+013D">>,
     <<"U+0140", "U+013F">>, <<"U+0142", "U+0141">>, <<"U+0144", "U+0143">>,
     <<"U+0146", "U+0145">>, <<"U+0148", "U+0147">>, <<"U+014B", "U+014A">>,
     <<"U+014D", "U+014C">>, <<"U+014F", "U+014E">>, <<"U+0151", "U+0150">>,
     <<"U+0153", "U+0152">>, <<"U+0155", "U+0154">>, <<"U+0157", "U+0156">>,
     <<"U+0159", "U+0158">>, <<"U+015B", "U+015A">>, <<"U+015D", "U+015C">>,
     <<"U+015F", "U+015E">>, <<"U+0161", "U+0160">>, <<"U+0163", "U+0162">>,
     <<"U+0165", "U+0164">>, <<"U+0167", "U+0166">>, <<"U+0169", "U+0168">>,
     <<"U+016B", "U+016A">>, <<"U+016D", "U+016C">>, <<"U+016F", "U+016E">>,
     <<"U+0171", "U+0170">>, <<"U+0173", "U+0172">>, <<"U+0175", "U+0174">>,
     <<"U+0177", "U+0176">>, <<"U+017A", "U+0179">>, <<"U+017C", "U+017B">>,
     <<"U+017E", "U+017D">>, <<"U+017F", "S">>, <<"U+0180", "U+0243">>,
     <<"U+0183", "U+0182">>, <<"U+0185", "U+0184">>, <<"U+0188", "U+0187">>,
     <<"U+018C", "U+018B">>, <<"U+0192", "U+0191">>, <<"U+0195", "U+01F6">>,
     <<"U+0199", "U+0198">>, <<"U+019A", "U+023D">>, <<"U+019E", "U+0220">>,
     <<"U+01A1", "U+01A0">>, <<"U+01A3", "U+01A2">>, <<"U+01A5", "U+01A4">>,
     <<"U+01A8", "U+01A7">>, <<"U+01AD", "U+01AC">>, <<"U+01B0", "U+01AF">>,
     <<"U+01B4", "U+01B3">>, <<"U+01B6", "U+01B5">>, <<"U+01B9", "U+01B8">>,
     <<"U+01BD", "U+01BC">>, <<"U+01BF", "U+01F7">>, <<"U+01C5", "U+01C4">>,
     <<"U+01C6", "U+01C4">>, <<"U+01C8", "U+01C7">>, <<"U+01C9", "U+01C7">>,
     <<"U+01CB", "U+01CA">>, <<"U+01CC", "U+01CA">>, <<"U+01CE", "U+01CD">>,
     <<"U+01D0", "U+01CF">>, <<"U+01D2", "U+01D1">>, <<"U+01D4", "U+01D3">>,
     <<"U+01D6", "U+01D5">>, <<"U+01D8", "U+01D7">>, <<"U+01DA", "U+01D9">>,
     <<"U+01DC", "U+01DB">>, <<"U+01DD", "U+018E">>, <<"U+01DF", "U+01DE">>,
     <<"U+01E1", "U+01E0">>, <<"U+01E3", "U+01E2">>, <<"U+01E5", "U+01E4">>,
     <<"U+01E7", "U+01E6">>, <<"U+01E9", "U+01E8">>, <<"U+01EB", "U+01EA">>,
     <<"U+01ED", "U+01EC">>, <<"U+01EF", "U+01EE">>, <<"U+01F2", "U+01F1">>,
     <<"U+01F3", "U+01F1">>, <<"U+01F5", "U+01F4">>, <<"U+01F9", "U+01F8">>,
     <<"U+01FB", "U+01FA">>, <<"U+01FD", "U+01FC">>, <<"U+01FF", "U+01FE">>,
     <<"U+0201", "U+0200">>, <<"U+0203", "U+0202">>, <<"U+0205", "U+0204">>,
     <<"U+0207", "U+0206">>, <<"U+0209", "U+0208">>, <<"U+020B", "U+020A">>,
     <<"U+020D", "U+020C">>, <<"U+020F", "U+020E">>, <<"U+0211", "U+0210">>,
     <<"U+0213", "U+0212">>, <<"U+0215", "U+0214">>, <<"U+0217", "U+0216">>,
     <<"U+0219", "U+0218">>, <<"U+021B", "U+021A">>, <<"U+021D", "U+021C">>,
     <<"U+021F", "U+021E">>, <<"U+0223", "U+0222">>, <<"U+0225", "U+0224">>,
     <<"U+0227", "U+0226">>, <<"U+0229", "U+0228">>, <<"U+022B", "U+022A">>,
     <<"U+022D", "U+022C">>, <<"U+022F", "U+022E">>, <<"U+0231", "U+0230">>,
     <<"U+0233", "U+0232">>, <<"U+023C", "U+023B">>, <<"U+023F", "U+2C7E">>,
     <<"U+0240", "U+2C7F">>, <<"U+0242", "U+0241">>, <<"U+0247", "U+0246">>,
     <<"U+0249", "U+0248">>, <<"U+024B", "U+024A">>, <<"U+024D", "U+024C">>,
     <<"U+024F", "U+024E">>, <<"U+0250", "U+2C6F">>, <<"U+0251", "U+2C6D">>,
     <<"U+0252", "U+2C70">>, <<"U+0253", "U+0181">>, <<"U+0254", "U+0186">>,
     <<"U+0256", "U+0189">>, <<"U+0257", "U+018A">>, <<"U+0259", "U+018F">>,
     <<"U+025B", "U+0190">>, <<"U+025C", "U+A7AB">>, <<"U+0260", "U+0193">>,
     <<"U+0261", "U+A7AC">>, <<"U+0263", "U+0194">>, <<"U+0265", "U+A78D">>,
     <<"U+0266", "U+A7AA">>, <<"U+0268", "U+0197">>, <<"U+0269", "U+0196">>,
     <<"U+026A", "U+A7AE">>, <<"U+026B", "U+2C62">>, <<"U+026C", "U+A7AD">>,
     <<"U+026F", "U+019C">>, <<"U+0271", "U+2C6E">>, <<"U+0272", "U+019D">>,
     <<"U+0275", "U+019F">>, <<"U+027D", "U+2C64">>, <<"U+0280", "U+01A6">>,
     <<"U+0282", "U+A7C5">>, <<"U+0283", "U+01A9">>, <<"U+0287", "U+A7B1">>,
     <<"U+0288", "U+01AE">>, <<"U+0289", "U+0244">>, <<"U+028A", "U+01B1">>,
     <<"U+028B", "U+01B2">>, <<"U+028C", "U+0245">>, <<"U+0292", "U+01B7">>,
     <<"U+029D", "U+A7B2">>, <<"U+029E", "U+A7B0">>, <<"U+0345", "U+0399">>,
     <<"U+0371", "U+0370">>, <<"U+0373", "U+0372">>, <<"U+0377", "U+0376">>,
     <<"U+037B", "U+03FD">>, <<"U+037C", "U+03FE">>, <<"U+037D", "U+03FF">>,
     <<"U+03AC", "U+0386">>, <<"U+03AD", "U+0388">>, <<"U+03AE", "U+0389">>,
     <<"U+03AF", "U+038A">>, <<"U+03B1", "U+0391">>, <<"U+03B2", "U+0392">>,
     <<"U+03B3", "U+0393">>, <<"U+03B4", "U+0394">>, <<"U+03B5", "U+0395">>,
     <<"U+03B6", "U+0396">>, <<"U+03B7", "U+0397">>, <<"U+03B8", "U+0398">>,
     <<"U+03B9", "U+0399">>, <<"U+03BA", "U+039A">>, <<"U+03BB", "U+039B">>,
     <<"U+03BC", "U+039C">>, <<"U+03BD", "U+039D">>, <<"U+03BE", "U+039E">>,
     <<"U+03BF", "U+039F">>, <<"U+03C0", "U+03A0">>, <<"U+03C1", "U+03A1">>,
     <<"U+03C2", "U+03A3">>, <<"U+03C3", "U+03A3">>, <<"U+03C4", "U+03A4">>,
     <<"U+03C5", "U+03A5">>, <<"U+03C6", "U+03A6">>, <<"U+03C7", "U+03A7">>,
     <<"U+03C8", "U+03A8">>, <<"U+03C9", "U+03A9">>, <<"U+03CA", "U+03AA">>,
     <<"U+03CB", "U+03AB">>, <<"U+03CC", "U+038C">>, <<"U+03CD", "U+038E">>,
     <<"U+03CE", "U+038F">>, <<"U+03D0", "U+0392">>, <<"U+03D1", "U+0398">>,
     <<"U+03D5", "U+03A6">>, <<"U+03D6", "U+03A0">>, <<"U+03D7", "U+03CF">>,
     <<"U+03D9", "U+03D8">>, <<"U+03DB", "U+03DA">>, <<"U+03DD", "U+03DC">>,
     <<"U+03DF", "U+03DE">>, <<"U+03E1", "U+03E0">>, <<"U+03E3", "U+03E2">>,
     <<"U+03E5", "U+03E4">>, <<"U+03E7", "U+03E6">>, <<"U+03E9", "U+03E8">>,
     <<"U+03EB", "U+03EA">>, <<"U+03ED", "U+03EC">>, <<"U+03EF", "U+03EE">>,
     <<"U+03F0", "U+039A">>, <<"U+03F1", "U+03A1">>, <<"U+03F2", "U+03F9">>,
     <<"U+03F3", "U+037F">>, <<"U+03F5", "U+0395">>, <<"U+03F8", "U+03F7">>,
     <<"U+03FB", "U+03FA">>, <<"U+0430", "U+0410">>, <<"U+0431", "U+0411">>,
     <<"U+0432", "U+0412">>, <<"U+0433", "U+0413">>, <<"U+0434", "U+0414">>,
     <<"U+0435", "U+0415">>, <<"U+0436", "U+0416">>, <<"U+0437", "U+0417">>,
     <<"U+0438", "U+0418">>, <<"U+0439", "U+0419">>, <<"U+043A", "U+041A">>,
     <<"U+043B", "U+041B">>, <<"U+043C", "U+041C">>, <<"U+043D", "U+041D">>,
     <<"U+043E", "U+041E">>, <<"U+043F", "U+041F">>, <<"U+0440", "U+0420">>,
     <<"U+0441", "U+0421">>, <<"U+0442", "U+0422">>, <<"U+0443", "U+0423">>,
     <<"U+0444", "U+0424">>, <<"U+0445", "U+0425">>, <<"U+0446", "U+0426">>,
     <<"U+0447", "U+0427">>, <<"U+0448", "U+0428">>, <<"U+0449", "U+0429">>,
     <<"U+044A", "U+042A">>, <<"U+044B", "U+042B">>, <<"U+044C", "U+042C">>,
     <<"U+044D", "U+042D">>, <<"U+044E", "U+042E">>, <<"U+044F", "U+042F">>,
     <<"U+0450", "U+0400">>, <<"U+0451", "U+0401">>, <<"U+0452", "U+0402">>,
     <<"U+0453", "U+0403">>, <<"U+0454", "U+0404">>, <<"U+0455", "U+0405">>,
     <<"U+0456", "U+0406">>, <<"U+0457", "U+0407">>, <<"U+0458", "U+0408">>,
     <<"U+0459", "U+0409">>, <<"U+045A", "U+040A">>, <<"U+045B", "U+040B">>,
     <<"U+045C", "U+040C">>, <<"U+045D", "U+040D">>, <<"U+045E", "U+040E">>,
     <<"U+045F", "U+040F">>, <<"U+0461", "U+0460">>, <<"U+0463", "U+0462">>,
     <<"U+0465", "U+0464">>, <<"U+0467", "U+0466">>, <<"U+0469", "U+0468">>,
     <<"U+046B", "U+046A">>, <<"U+046D", "U+046C">>, <<"U+046F", "U+046E">>,
     <<"U+0471", "U+0470">>, <<"U+0473", "U+0472">>, <<"U+0475", "U+0474">>,
     <<"U+0477", "U+0476">>, <<"U+0479", "U+0478">>, <<"U+047B", "U+047A">>,
     <<"U+047D", "U+047C">>, <<"U+047F", "U+047E">>, <<"U+0481", "U+0480">>,
     <<"U+048B", "U+048A">>, <<"U+048D", "U+048C">>, <<"U+048F", "U+048E">>,
     <<"U+0491", "U+0490">>, <<"U+0493", "U+0492">>, <<"U+0495", "U+0494">>,
     <<"U+0497", "U+0496">>, <<"U+0499", "U+0498">>, <<"U+049B", "U+049A">>,
     <<"U+049D", "U+049C">>, <<"U+049F", "U+049E">>, <<"U+04A1", "U+04A0">>,
     <<"U+04A3", "U+04A2">>, <<"U+04A5", "U+04A4">>, <<"U+04A7", "U+04A6">>,
     <<"U+04A9", "U+04A8">>, <<"U+04AB", "U+04AA">>, <<"U+04AD", "U+04AC">>,
     <<"U+04AF", "U+04AE">>, <<"U+04B1", "U+04B0">>, <<"U+04B3", "U+04B2">>,
     <<"U+04B5", "U+04B4">>, <<"U+04B7", "U+04B6">>, <<"U+04B9", "U+04B8">>,
     <<"U+04BB", "U+04BA">>, <<"U+04BD", "U+04BC">>, <<"U+04BF", "U+04BE">>,
     <<"U+04C2", "U+04C1">>, <<"U+04C4", "U+04C3">>, <<"U+04C6", "U+04C5">>,
     <<"U+04C8", "U+04C7">>, <<"U+04CA", "U+04C9">>, <<"U+04CC", "U+04CB">>,
     <<"U+04CE", "U+04CD">>, <<"U+04CF", "U+04C0">>, <<"U+04D1", "U+04D0">>,
     <<"U+04D3", "U+04D2">>, <<"U+04D5", "U+04D4">>, <<"U+04D7", "U+04D6">>,
     <<"U+04D9", "U+04D8">>, <<"U+04DB", "U+04DA">>, <<"U+04DD", "U+04DC">>,
     <<"U+04DF", "U+04DE">>, <<"U+04E1", "U+04E0">>, <<"U+04E3", "U+04E2">>,
     <<"U+04E5", "U+04E4">>, <<"U+04E7", "U+04E6">>, <<"U+04E9", "U+04E8">>,
     <<"U+04EB", "U+04EA">>, <<"U+04ED", "U+04EC">>, <<"U+04EF", "U+04EE">>,
     <<"U+04F1", "U+04F0">>, <<"U+04F3", "U+04F2">>, <<"U+04F5", "U+04F4">>,
     <<"U+04F7", "U+04F6">>, <<"U+04F9", "U+04F8">>, <<"U+04FB", "U+04FA">>,
     <<"U+04FD", "U+04FC">>, <<"U+04FF", "U+04FE">>, <<"U+0501", "U+0500">>,
     <<"U+0503", "U+0502">>, <<"U+0505", "U+0504">>, <<"U+0507", "U+0506">>,
     <<"U+0509", "U+0508">>, <<"U+050B", "U+050A">>, <<"U+050D", "U+050C">>,
     <<"U+050F", "U+050E">>, <<"U+0511", "U+0510">>, <<"U+0513", "U+0512">>,
     <<"U+0515", "U+0514">>, <<"U+0517", "U+0516">>, <<"U+0519", "U+0518">>,
     <<"U+051B", "U+051A">>, <<"U+051D", "U+051C">>, <<"U+051F", "U+051E">>,
     <<"U+0521", "U+0520">>, <<"U+0523", "U+0522">>, <<"U+0525", "U+0524">>,
     <<"U+0527", "U+0526">>, <<"U+0529", "U+0528">>, <<"U+052B", "U+052A">>,
     <<"U+052D", "U+052C">>, <<"U+052F", "U+052E">>, <<"U+0561", "U+0531">>,
     <<"U+0562", "U+0532">>, <<"U+0563", "U+0533">>, <<"U+0564", "U+0534">>,
     <<"U+0565", "U+0535">>, <<"U+0566", "U+0536">>, <<"U+0567", "U+0537">>,
     <<"U+0568", "U+0538">>, <<"U+0569", "U+0539">>, <<"U+056A", "U+053A">>,
     <<"U+056B", "U+053B">>, <<"U+056C", "U+053C">>, <<"U+056D", "U+053D">>,
     <<"U+056E", "U+053E">>, <<"U+056F", "U+053F">>, <<"U+0570", "U+0540">>,
     <<"U+0571", "U+0541">>, <<"U+0572", "U+0542">>, <<"U+0573", "U+0543">>,
     <<"U+0574", "U+0544">>, <<"U+0575", "U+0545">>, <<"U+0576", "U+0546">>,
     <<"U+0577", "U+0547">>, <<"U+0578", "U+0548">>, <<"U+0579", "U+0549">>,
     <<"U+057A", "U+054A">>, <<"U+057B", "U+054B">>, <<"U+057C", "U+054C">>,
     <<"U+057D", "U+054D">>, <<"U+057E", "U+054E">>, <<"U+057F", "U+054F">>,
     <<"U+0580", "U+0550">>, <<"U+0581", "U+0551">>, <<"U+0582", "U+0552">>,
     <<"U+0583", "U+0553">>, <<"U+0584", "U+0554">>, <<"U+0585", "U+0555">>,
     <<"U+0586", "U+0556">>, <<"U+10D0", "U+1C90">>, <<"U+10D1", "U+1C91">>,
     <<"U+10D2", "U+1C92">>, <<"U+10D3", "U+1C93">>, <<"U+10D4", "U+1C94">>,
     <<"U+10D5", "U+1C95">>, <<"U+10D6", "U+1C96">>, <<"U+10D7", "U+1C97">>,
     <<"U+10D8", "U+1C98">>, <<"U+10D9", "U+1C99">>, <<"U+10DA", "U+1C9A">>,
     <<"U+10DB", "U+1C9B">>, <<"U+10DC", "U+1C9C">>, <<"U+10DD", "U+1C9D">>,
     <<"U+10DE", "U+1C9E">>, <<"U+10DF", "U+1C9F">>, <<"U+10E0", "U+1CA0">>,
     <<"U+10E1", "U+1CA1">>, <<"U+10E2", "U+1CA2">>, <<"U+10E3", "U+1CA3">>,
     <<"U+10E4", "U+1CA4">>, <<"U+10E5", "U+1CA5">>, <<"U+10E6", "U+1CA6">>,
     <<"U+10E7", "U+1CA7">>, <<"U+10E8", "U+1CA8">>, <<"U+10E9", "U+1CA9">>,
     <<"U+10EA", "U+1CAA">>, <<"U+10EB", "U+1CAB">>, <<"U+10EC", "U+1CAC">>,
     <<"U+10ED", "U+1CAD">>, <<"U+10EE", "U+1CAE">>, <<"U+10EF", "U+1CAF">>,
     <<"U+10F0", "U+1CB0">>, <<"U+10F1", "U+1CB1">>, <<"U+10F2", "U+1CB2">>,
     <<"U+10F3", "U+1CB3">>, <<"U+10F4", "U+1CB4">>, <<"U+10F5", "U+1CB5">>,
     <<"U+10F6", "U+1CB6">>, <<"U+10F7", "U+1CB7">>, <<"U+10F8", "U+1CB8">>,
     <<"U+10F9", "U+1CB9">>, <<"U+10FA", "U+1CBA">>, <<"U+10FD", "U+1CBD">>,
     <<"U+10FE", "U+1CBE">>, <<"U+10FF", "U+1CBF">>, <<"U+13F8", "U+13F0">>,
     <<"U+13F9", "U+13F1">>, <<"U+13FA", "U+13F2">>, <<"U+13FB", "U+13F3">>,
     <<"U+13FC", "U+13F4">>, <<"U+13FD", "U+13F5">>, <<"U+1C80", "U+0412">>,
     <<"U+1C81", "U+0414">>, <<"U+1C82", "U+041E">>, <<"U+1C83", "U+0421">>,
     <<"U+1C84", "U+0422">>, <<"U+1C85", "U+0422">>, <<"U+1C86", "U+042A">>,
     <<"U+1C87", "U+0462">>, <<"U+1C88", "U+A64A">>, <<"U+1D79", "U+A77D">>,
     <<"U+1D7D", "U+2C63">>, <<"U+1D8E", "U+A7C6">>, <<"U+1E01", "U+1E00">>,
     <<"U+1E03", "U+1E02">>, <<"U+1E05", "U+1E04">>, <<"U+1E07", "U+1E06">>,
     <<"U+1E09", "U+1E08">>, <<"U+1E0B", "U+1E0A">>, <<"U+1E0D", "U+1E0C">>,
     <<"U+1E0F", "U+1E0E">>, <<"U+1E11", "U+1E10">>, <<"U+1E13", "U+1E12">>,
     <<"U+1E15", "U+1E14">>, <<"U+1E17", "U+1E16">>, <<"U+1E19", "U+1E18">>,
     <<"U+1E1B", "U+1E1A">>, <<"U+1E1D", "U+1E1C">>, <<"U+1E1F", "U+1E1E">>,
     <<"U+1E21", "U+1E20">>, <<"U+1E23", "U+1E22">>, <<"U+1E25", "U+1E24">>,
     <<"U+1E27", "U+1E26">>, <<"U+1E29", "U+1E28">>, <<"U+1E2B", "U+1E2A">>,
     <<"U+1E2D", "U+1E2C">>, <<"U+1E2F", "U+1E2E">>, <<"U+1E31", "U+1E30">>,
     <<"U+1E33", "U+1E32">>, <<"U+1E35", "U+1E34">>, <<"U+1E37", "U+1E36">>,
     <<"U+1E39", "U+1E38">>, <<"U+1E3B", "U+1E3A">>, <<"U+1E3D", "U+1E3C">>,
     <<"U+1E3F", "U+1E3E">>, <<"U+1E41", "U+1E40">>, <<"U+1E43", "U+1E42">>,
     <<"U+1E45", "U+1E44">>, <<"U+1E47", "U+1E46">>, <<"U+1E49", "U+1E48">>,
     <<"U+1E4B", "U+1E4A">>, <<"U+1E4D", "U+1E4C">>, <<"U+1E4F", "U+1E4E">>,
     <<"U+1E51", "U+1E50">>, <<"U+1E53", "U+1E52">>, <<"U+1E55", "U+1E54">>,
     <<"U+1E57", "U+1E56">>, <<"U+1E59", "U+1E58">>, <<"U+1E5B", "U+1E5A">>,
     <<"U+1E5D", "U+1E5C">>, <<"U+1E5F", "U+1E5E">>, <<"U+1E61", "U+1E60">>,
     <<"U+1E63", "U+1E62">>, <<"U+1E65", "U+1E64">>, <<"U+1E67", "U+1E66">>,
     <<"U+1E69", "U+1E68">>, <<"U+1E6B", "U+1E6A">>, <<"U+1E6D", "U+1E6C">>,
     <<"U+1E6F", "U+1E6E">>, <<"U+1E71", "U+1E70">>, <<"U+1E73", "U+1E72">>,
     <<"U+1E75", "U+1E74">>, <<"U+1E77", "U+1E76">>, <<"U+1E79", "U+1E78">>,
     <<"U+1E7B", "U+1E7A">>, <<"U+1E7D", "U+1E7C">>, <<"U+1E7F", "U+1E7E">>,
     <<"U+1E81", "U+1E80">>, <<"U+1E83", "U+1E82">>, <<"U+1E85", "U+1E84">>,
     <<"U+1E87", "U+1E86">>, <<"U+1E89", "U+1E88">>, <<"U+1E8B", "U+1E8A">>,
     <<"U+1E8D", "U+1E8C">>, <<"U+1E8F", "U+1E8E">>, <<"U+1E91", "U+1E90">>,
     <<"U+1E93", "U+1E92">>, <<"U+1E95", "U+1E94">>, <<"U+1E9B", "U+1E60">>,
     <<"U+1EA1", "U+1EA0">>, <<"U+1EA3", "U+1EA2">>, <<"U+1EA5", "U+1EA4">>,
     <<"U+1EA7", "U+1EA6">>, <<"U+1EA9", "U+1EA8">>, <<"U+1EAB", "U+1EAA">>,
     <<"U+1EAD", "U+1EAC">>, <<"U+1EAF", "U+1EAE">>, <<"U+1EB1", "U+1EB0">>,
     <<"U+1EB3", "U+1EB2">>, <<"U+1EB5", "U+1EB4">>, <<"U+1EB7", "U+1EB6">>,
     <<"U+1EB9", "U+1EB8">>, <<"U+1EBB", "U+1EBA">>, <<"U+1EBD", "U+1EBC">>,
     <<"U+1EBF", "U+1EBE">>, <<"U+1EC1", "U+1EC0">>, <<"U+1EC3", "U+1EC2">>,
     <<"U+1EC5", "U+1EC4">>, <<"U+1EC7", "U+1EC6">>, <<"U+1EC9", "U+1EC8">>,
     <<"U+1ECB", "U+1ECA">>, <<"U+1ECD", "U+1ECC">>, <<"U+1ECF", "U+1ECE">>,
     <<"U+1ED1", "U+1ED0">>, <<"U+1ED3", "U+1ED2">>, <<"U+1ED5", "U+1ED4">>,
     <<"U+1ED7", "U+1ED6">>, <<"U+1ED9", "U+1ED8">>, <<"U+1EDB", "U+1EDA">>,
     <<"U+1EDD", "U+1EDC">>, <<"U+1EDF", "U+1EDE">>, <<"U+1EE1", "U+1EE0">>,
     <<"U+1EE3", "U+1EE2">>, <<"U+1EE5", "U+1EE4">>, <<"U+1EE7", "U+1EE6">>,
     <<"U+1EE9", "U+1EE8">>, <<"U+1EEB", "U+1EEA">>, <<"U+1EED", "U+1EEC">>,
     <<"U+1EEF", "U+1EEE">>, <<"U+1EF1", "U+1EF0">>, <<"U+1EF3", "U+1EF2">>,
     <<"U+1EF5", "U+1EF4">>, <<"U+1EF7", "U+1EF6">>, <<"U+1EF9", "U+1EF8">>,
     <<"U+1EFB", "U+1EFA">>, <<"U+1EFD", "U+1EFC">>, <<"U+1EFF", "U+1EFE">>,
     <<"U+1F00", "U+1F08">>, <<"U+1F01", "U+1F09">>, <<"U+1F02", "U+1F0A">>,
     <<"U+1F03", "U+1F0B">>, <<"U+1F04", "U+1F0C">>, <<"U+1F05", "U+1F0D">>,
     <<"U+1F06", "U+1F0E">>, <<"U+1F07", "U+1F0F">>, <<"U+1F10", "U+1F18">>,
     <<"U+1F11", "U+1F19">>, <<"U+1F12", "U+1F1A">>, <<"U+1F13", "U+1F1B">>,
     <<"U+1F14", "U+1F1C">>, <<"U+1F15", "U+1F1D">>, <<"U+1F20", "U+1F28">>,
     <<"U+1F21", "U+1F29">>, <<"U+1F22", "U+1F2A">>, <<"U+1F23", "U+1F2B">>,
     <<"U+1F24", "U+1F2C">>, <<"U+1F25", "U+1F2D">>, <<"U+1F26", "U+1F2E">>,
     <<"U+1F27", "U+1F2F">>, <<"U+1F30", "U+1F38">>, <<"U+1F31", "U+1F39">>,
     <<"U+1F32", "U+1F3A">>, <<"U+1F33", "U+1F3B">>, <<"U+1F34", "U+1F3C">>,
     <<"U+1F35", "U+1F3D">>, <<"U+1F36", "U+1F3E">>, <<"U+1F37", "U+1F3F">>,
     <<"U+1F40", "U+1F48">>, <<"U+1F41", "U+1F49">>, <<"U+1F42", "U+1F4A">>,
     <<"U+1F43", "U+1F4B">>, <<"U+1F44", "U+1F4C">>, <<"U+1F45", "U+1F4D">>,
     <<"U+1F51", "U+1F59">>, <<"U+1F53", "U+1F5B">>, <<"U+1F55", "U+1F5D">>,
     <<"U+1F57", "U+1F5F">>, <<"U+1F60", "U+1F68">>, <<"U+1F61", "U+1F69">>,
     <<"U+1F62", "U+1F6A">>, <<"U+1F63", "U+1F6B">>, <<"U+1F64", "U+1F6C">>,
     <<"U+1F65", "U+1F6D">>, <<"U+1F66", "U+1F6E">>, <<"U+1F67", "U+1F6F">>,
     <<"U+1F70", "U+1FBA">>, <<"U+1F71", "U+1FBB">>, <<"U+1F72", "U+1FC8">>,
     <<"U+1F73", "U+1FC9">>, <<"U+1F74", "U+1FCA">>, <<"U+1F75", "U+1FCB">>,
     <<"U+1F76", "U+1FDA">>, <<"U+1F77", "U+1FDB">>, <<"U+1F78", "U+1FF8">>,
     <<"U+1F79", "U+1FF9">>, <<"U+1F7A", "U+1FEA">>, <<"U+1F7B", "U+1FEB">>,
     <<"U+1F7C", "U+1FFA">>, <<"U+1F7D", "U+1FFB">>, <<"U+1F80", "U+1F88">>,
     <<"U+1F81", "U+1F89">>, <<"U+1F82", "U+1F8A">>, <<"U+1F83", "U+1F8B">>,
     <<"U+1F84", "U+1F8C">>, <<"U+1F85", "U+1F8D">>, <<"U+1F86", "U+1F8E">>,
     <<"U+1F87", "U+1F8F">>, <<"U+1F90", "U+1F98">>, <<"U+1F91", "U+1F99">>,
     <<"U+1F92", "U+1F9A">>, <<"U+1F93", "U+1F9B">>, <<"U+1F94", "U+1F9C">>,
     <<"U+1F95", "U+1F9D">>, <<"U+1F96", "U+1F9E">>, <<"U+1F97", "U+1F9F">>,
     <<"U+1FA0", "U+1FA8">>, <<"U+1FA1", "U+1FA9">>, <<"U+1FA2", "U+1FAA">>,
     <<"U+1FA3", "U+1FAB">>, <<"U+1FA4", "U+1FAC">>, <<"U+1FA5", "U+1FAD">>,
     <<"U+1FA6", "U+1FAE">>, <<"U+1FA7", "U+1FAF">>, <<"U+1FB0", "U+1FB8">>,
     <<"U+1FB1", "U+1FB9">>, <<"U+1FB3", "U+1FBC">>, <<"U+1FBE", "U+0399">>,
     <<"U+1FC3", "U+1FCC">>, <<"U+1FD0", "U+1FD8">>, <<"U+1FD1", "U+1FD9">>,
     <<"U+1FE0", "U+1FE8">>, <<"U+1FE1", "U+1FE9">>, <<"U+1FE5", "U+1FEC">>,
     <<"U+1FF3", "U+1FFC">>, <<"U+214E", "U+2132">>, <<"U+2170", "U+2160">>,
     <<"U+2171", "U+2161">>, <<"U+2172", "U+2162">>, <<"U+2173", "U+2163">>,
     <<"U+2174", "U+2164">>, <<"U+2175", "U+2165">>, <<"U+2176", "U+2166">>,
     <<"U+2177", "U+2167">>, <<"U+2178", "U+2168">>, <<"U+2179", "U+2169">>,
     <<"U+217A", "U+216A">>, <<"U+217B", "U+216B">>, <<"U+217C", "U+216C">>,
     <<"U+217D", "U+216D">>, <<"U+217E", "U+216E">>, <<"U+217F", "U+216F">>,
     <<"U+2184", "U+2183">>, <<"U+24D0", "U+24B6">>, <<"U+24D1", "U+24B7">>,
     <<"U+24D2", "U+24B8">>, <<"U+24D3", "U+24B9">>, <<"U+24D4", "U+24BA">>,
     <<"U+24D5", "U+24BB">>, <<"U+24D6", "U+24BC">>, <<"U+24D7", "U+24BD">>,
     <<"U+24D8", "U+24BE">>, <<"U+24D9", "U+24BF">>, <<"U+24DA", "U+24C0">>,
     <<"U+24DB", "U+24C1">>, <<"U+24DC", "U+24C2">>, <<"U+24DD", "U+24C3">>,
     <<"U+24DE", "U+24C4">>, <<"U+24DF", "U+24C5">>, <<"U+24E0", "U+24C6">>,
     <<"U+24E1", "U+24C7">>, <<"U+24E2", "U+24C8">>, <<"U+24E3", "U+24C9">>,
     <<"U+24E4", "U+24CA">>, <<"U+24E5", "U+24CB">>, <<"U+24E6", "U+24CC">>,
     <<"U+24E7", "U+24CD">>, <<"U+24E8", "U+24CE">>, <<"U+24E9", "U+24CF">>,
     <<"U+2C30", "U+2C00">>, <<"U+2C31", "U+2C01">>, <<"U+2C32", "U+2C02">>,
     <<"U+2C33", "U+2C03">>, <<"U+2C34", "U+2C04">>, <<"U+2C35", "U+2C05">>,
     <<"U+2C36", "U+2C06">>, <<"U+2C37", "U+2C07">>, <<"U+2C38", "U+2C08">>,
     <<"U+2C39", "U+2C09">>, <<"U+2C3A", "U+2C0A">>, <<"U+2C3B", "U+2C0B">>,
     <<"U+2C3C", "U+2C0C">>, <<"U+2C3D", "U+2C0D">>, <<"U+2C3E", "U+2C0E">>,
     <<"U+2C3F", "U+2C0F">>, <<"U+2C40", "U+2C10">>, <<"U+2C41", "U+2C11">>,
     <<"U+2C42", "U+2C12">>, <<"U+2C43", "U+2C13">>, <<"U+2C44", "U+2C14">>,
     <<"U+2C45", "U+2C15">>, <<"U+2C46", "U+2C16">>, <<"U+2C47", "U+2C17">>,
     <<"U+2C48", "U+2C18">>, <<"U+2C49", "U+2C19">>, <<"U+2C4A", "U+2C1A">>,
     <<"U+2C4B", "U+2C1B">>, <<"U+2C4C", "U+2C1C">>, <<"U+2C4D", "U+2C1D">>,
     <<"U+2C4E", "U+2C1E">>, <<"U+2C4F", "U+2C1F">>, <<"U+2C50", "U+2C20">>,
     <<"U+2C51", "U+2C21">>, <<"U+2C52", "U+2C22">>, <<"U+2C53", "U+2C23">>,
     <<"U+2C54", "U+2C24">>, <<"U+2C55", "U+2C25">>, <<"U+2C56", "U+2C26">>,
     <<"U+2C57", "U+2C27">>, <<"U+2C58", "U+2C28">>, <<"U+2C59", "U+2C29">>,
     <<"U+2C5A", "U+2C2A">>, <<"U+2C5B", "U+2C2B">>, <<"U+2C5C", "U+2C2C">>,
     <<"U+2C5D", "U+2C2D">>, <<"U+2C5E", "U+2C2E">>, <<"U+2C5F", "U+2C2F">>,
     <<"U+2C61", "U+2C60">>, <<"U+2C65", "U+023A">>, <<"U+2C66", "U+023E">>,
     <<"U+2C68", "U+2C67">>, <<"U+2C6A", "U+2C69">>, <<"U+2C6C", "U+2C6B">>,
     <<"U+2C73", "U+2C72">>, <<"U+2C76", "U+2C75">>, <<"U+2C81", "U+2C80">>,
     <<"U+2C83", "U+2C82">>, <<"U+2C85", "U+2C84">>, <<"U+2C87", "U+2C86">>,
     <<"U+2C89", "U+2C88">>, <<"U+2C8B", "U+2C8A">>, <<"U+2C8D", "U+2C8C">>,
     <<"U+2C8F", "U+2C8E">>, <<"U+2C91", "U+2C90">>, <<"U+2C93", "U+2C92">>,
     <<"U+2C95", "U+2C94">>, <<"U+2C97", "U+2C96">>, <<"U+2C99", "U+2C98">>,
     <<"U+2C9B", "U+2C9A">>, <<"U+2C9D", "U+2C9C">>, <<"U+2C9F", "U+2C9E">>,
     <<"U+2CA1", "U+2CA0">>, <<"U+2CA3", "U+2CA2">>, <<"U+2CA5", "U+2CA4">>,
     <<"U+2CA7", "U+2CA6">>, <<"U+2CA9", "U+2CA8">>, <<"U+2CAB", "U+2CAA">>,
     <<"U+2CAD", "U+2CAC">>, <<"U+2CAF", "U+2CAE">>, <<"U+2CB1", "U+2CB0">>,
     <<"U+2CB3", "U+2CB2">>, <<"U+2CB5", "U+2CB4">>, <<"U+2CB7", "U+2CB6">>,
     <<"U+2CB9", "U+2CB8">>, <<"U+2CBB", "U+2CBA">>, <<"U+2CBD", "U+2CBC">>,
     <<"U+2CBF", "U+2CBE">>, <<"U+2CC1", "U+2CC0">>, <<"U+2CC3", "U+2CC2">>,
     <<"U+2CC5", "U+2CC4">>, <<"U+2CC7", "U+2CC6">>, <<"U+2CC9", "U+2CC8">>,
     <<"U+2CCB", "U+2CCA">>, <<"U+2CCD", "U+2CCC">>, <<"U+2CCF", "U+2CCE">>,
     <<"U+2CD1", "U+2CD0">>, <<"U+2CD3", "U+2CD2">>, <<"U+2CD5", "U+2CD4">>,
     <<"U+2CD7", "U+2CD6">>, <<"U+2CD9", "U+2CD8">>, <<"U+2CDB", "U+2CDA">>,
     <<"U+2CDD", "U+2CDC">>, <<"U+2CDF", "U+2CDE">>, <<"U+2CE1", "U+2CE0">>,
     <<"U+2CE3", "U+2CE2">>, <<"U+2CEC", "U+2CEB">>, <<"U+2CEE", "U+2CED">>,
     <<"U+2CF3", "U+2CF2">>, <<"U+2D00", "U+10A0">>, <<"U+2D01", "U+10A1">>,
     <<"U+2D02", "U+10A2">>, <<"U+2D03", "U+10A3">>, <<"U+2D04", "U+10A4">>,
     <<"U+2D05", "U+10A5">>, <<"U+2D06", "U+10A6">>, <<"U+2D07", "U+10A7">>,
     <<"U+2D08", "U+10A8">>, <<"U+2D09", "U+10A9">>, <<"U+2D0A", "U+10AA">>,
     <<"U+2D0B", "U+10AB">>, <<"U+2D0C", "U+10AC">>, <<"U+2D0D", "U+10AD">>,
     <<"U+2D0E", "U+10AE">>, <<"U+2D0F", "U+10AF">>, <<"U+2D10", "U+10B0">>,
     <<"U+2D11", "U+10B1">>, <<"U+2D12", "U+10B2">>, <<"U+2D13", "U+10B3">>,
     <<"U+2D14", "U+10B4">>, <<"U+2D15", "U+10B5">>, <<"U+2D16", "U+10B6">>,
     <<"U+2D17", "U+10B7">>, <<"U+2D18", "U+10B8">>, <<"U+2D19", "U+10B9">>,
     <<"U+2D1A", "U+10BA">>, <<"U+2D1B", "U+10BB">>, <<"U+2D1C", "U+10BC">>,
     <<"U+2D1D", "U+10BD">>, <<"U+2D1E", "U+10BE">>, <<"U+2D1F", "U+10BF">>,
     <<"U+2D20", "U+10C0">>, <<"U+2D21", "U+10C1">>, <<"U+2D22", "U+10C2">>,
     <<"U+2D23", "U+10C3">>, <<"U+2D24", "U+10C4">>, <<"U+2D25", "U+10C5">>,
     <<"U+2D27", "U+10C7">>, <<"U+2D2D", "U+10CD">>, <<"U+A641", "U+A640">>,
     <<"U+A643", "U+A642">>, <<"U+A645", "U+A644">>, <<"U+A647", "U+A646">>,
     <<"U+A649", "U+A648">>, <<"U+A64B", "U+A64A">>, <<"U+A64D", "U+A64C">>,
     <<"U+A64F", "U+A64E">>, <<"U+A651", "U+A650">>, <<"U+A653", "U+A652">>,
     <<"U+A655", "U+A654">>, <<"U+A657", "U+A656">>, <<"U+A659", "U+A658">>,
     <<"U+A65B", "U+A65A">>, <<"U+A65D", "U+A65C">>, <<"U+A65F", "U+A65E">>,
     <<"U+A661", "U+A660">>, <<"U+A663", "U+A662">>, <<"U+A665", "U+A664">>,
     <<"U+A667", "U+A666">>, <<"U+A669", "U+A668">>, <<"U+A66B", "U+A66A">>,
     <<"U+A66D", "U+A66C">>, <<"U+A681", "U+A680">>, <<"U+A683", "U+A682">>,
     <<"U+A685", "U+A684">>, <<"U+A687", "U+A686">>, <<"U+A689", "U+A688">>,
     <<"U+A68B", "U+A68A">>, <<"U+A68D", "U+A68C">>, <<"U+A68F", "U+A68E">>,
     <<"U+A691", "U+A690">>, <<"U+A693", "U+A692">>, <<"U+A695", "U+A694">>,
     <<"U+A697", "U+A696">>, <<"U+A699", "U+A698">>, <<"U+A69B", "U+A69A">>,
     <<"U+A723", "U+A722">>, <<"U+A725", "U+A724">>, <<"U+A727", "U+A726">>,
     <<"U+A729", "U+A728">>, <<"U+A72B", "U+A72A">>, <<"U+A72D", "U+A72C">>,
     <<"U+A72F", "U+A72E">>, <<"U+A733", "U+A732">>, <<"U+A735", "U+A734">>,
     <<"U+A737", "U+A736">>, <<"U+A739", "U+A738">>, <<"U+A73B", "U+A73A">>,
     <<"U+A73D", "U+A73C">>, <<"U+A73F", "U+A73E">>, <<"U+A741", "U+A740">>,
     <<"U+A743", "U+A742">>, <<"U+A745", "U+A744">>, <<"U+A747", "U+A746">>,
     <<"U+A749", "U+A748">>, <<"U+A74B", "U+A74A">>, <<"U+A74D", "U+A74C">>,
     <<"U+A74F", "U+A74E">>, <<"U+A751", "U+A750">>, <<"U+A753", "U+A752">>,
     <<"U+A755", "U+A754">>, <<"U+A757", "U+A756">>, <<"U+A759", "U+A758">>,
     <<"U+A75B", "U+A75A">>, <<"U+A75D", "U+A75C">>, <<"U+A75F", "U+A75E">>,
     <<"U+A761", "U+A760">>, <<"U+A763", "U+A762">>, <<"U+A765", "U+A764">>,
     <<"U+A767", "U+A766">>, <<"U+A769", "U+A768">>, <<"U+A76B", "U+A76A">>,
     <<"U+A76D", "U+A76C">>, <<"U+A76F", "U+A76E">>, <<"U+A77A", "U+A779">>,
     <<"U+A77C", "U+A77B">>, <<"U+A77F", "U+A77E">>, <<"U+A781", "U+A780">>,
     <<"U+A783", "U+A782">>, <<"U+A785", "U+A784">>, <<"U+A787", "U+A786">>,
     <<"U+A78C", "U+A78B">>, <<"U+A791", "U+A790">>, <<"U+A793", "U+A792">>,
     <<"U+A794", "U+A7C4">>, <<"U+A797", "U+A796">>, <<"U+A799", "U+A798">>,
     <<"U+A79B", "U+A79A">>, <<"U+A79D", "U+A79C">>, <<"U+A79F", "U+A79E">>,
     <<"U+A7A1", "U+A7A0">>, <<"U+A7A3", "U+A7A2">>, <<"U+A7A5", "U+A7A4">>,
     <<"U+A7A7", "U+A7A6">>, <<"U+A7A9", "U+A7A8">>, <<"U+A7B5", "U+A7B4">>,
     <<"U+A7B7", "U+A7B6">>, <<"U+A7B9", "U+A7B8">>, <<"U+A7BB", "U+A7BA">>,
     <<"U+A7BD", "U+A7BC">>, <<"U+A7BF", "U+A7BE">>, <<"U+A7C1", "U+A7C0">>,
     <<"U+A7C3", "U+A7C2">>, <<"U+A7C8", "U+A7C7">>, <<"U+A7CA", "U+A7C9">>,
     <<"U+A7D1", "U+A7D0">>, <<"U+A7D7", "U+A7D6">>, <<"U+A7D9", "U+A7D8">>,
     <<"U+A7F6", "U+A7F5">>, <<"U+AB53", "U+A7B3">>, <<"U+AB70", "U+13A0">>,
     <<"U+AB71", "U+13A1">>, <<"U+AB72", "U+13A2">>, <<"U+AB73", "U+13A3">>,
     <<"U+AB74", "U+13A4">>, <<"U+AB75", "U+13A5">>, <<"U+AB76", "U+13A6">>,
     <<"U+AB77", "U+13A7">>, <<"U+AB78", "U+13A8">>, <<"U+AB79", "U+13A9">>,
     <<"U+AB7A", "U+13AA">>, <<"U+AB7B", "U+13AB">>, <<"U+AB7C", "U+13AC">>,
     <<"U+AB7D", "U+13AD">>, <<"U+AB7E", "U+13AE">>, <<"U+AB7F", "U+13AF">>,
     <<"U+AB80", "U+13B0">>, <<"U+AB81", "U+13B1">>, <<"U+AB82", "U+13B2">>,
     <<"U+AB83", "U+13B3">>, <<"U+AB84", "U+13B4">>, <<"U+AB85", "U+13B5">>,
     <<"U+AB86", "U+13B6">>, <<"U+AB87", "U+13B7">>, <<"U+AB88", "U+13B8">>,
     <<"U+AB89", "U+13B9">>, <<"U+AB8A", "U+13BA">>, <<"U+AB8B", "U+13BB">>,
     <<"U+AB8C", "U+13BC">>, <<"U+AB8D", "U+13BD">>, <<"U+AB8E", "U+13BE">>,
     <<"U+AB8F", "U+13BF">>, <<"U+AB90", "U+13C0">>, <<"U+AB91", "U+13C1">>,
     <<"U+AB92", "U+13C2">>, <<"U+AB93", "U+13C3">>, <<"U+AB94", "U+13C4">>,
     <<"U+AB95", "U+13C5">>, <<"U+AB96", "U+13C6">>, <<"U+AB97", "U+13C7">>,
     <<"U+AB98", "U+13C8">>, <<"U+AB99", "U+13C9">>, <<"U+AB9A", "U+13CA">>,
     <<"U+AB9B", "U+13CB">>, <<"U+AB9C", "U+13CC">>, <<"U+AB9D", "U+13CD">>,
     <<"U+AB9E", "U+13CE">>, <<"U+AB9F", "U+13CF">>, <<"U+ABA0", "U+13D0">>,
     <<"U+ABA1", "U+13D1">>, <<"U+ABA2", "U+13D2">>, <<"U+ABA3", "U+13D3">>,
     <<"U+ABA4", "U+13D4">>, <<"U+ABA5", "U+13D5">>, <<"U+ABA6", "U+13D6">>,
     <<"U+ABA7", "U+13D7">>, <<"U+ABA8", "U+13D8">>, <<"U+ABA9", "U+13D9">>,
     <<"U+ABAA", "U+13DA">>, <<"U+ABAB", "U+13DB">>, <<"U+ABAC", "U+13DC">>,
     <<"U+ABAD", "U+13DD">>, <<"U+ABAE", "U+13DE">>, <<"U+ABAF", "U+13DF">>,
     <<"U+ABB0", "U+13E0">>, <<"U+ABB1", "U+13E1">>, <<"U+ABB2", "U+13E2">>,
     <<"U+ABB3", "U+13E3">>, <<"U+ABB4", "U+13E4">>, <<"U+ABB5", "U+13E5">>,
     <<"U+ABB6", "U+13E6">>, <<"U+ABB7", "U+13E7">>, <<"U+ABB8", "U+13E8">>,
     <<"U+ABB9", "U+13E9">>, <<"U+ABBA", "U+13EA">>, <<"U+ABBB", "U+13EB">>,
     <<"U+ABBC", "U+13EC">>, <<"U+ABBD", "U+13ED">>, <<"U+ABBE", "U+13EE">>,
     <<"U+ABBF", "U+13EF">>, <<"U+FF41", "U+FF21">>, <<"U+FF42", "U+FF22">>,
     <<"U+FF43", "U+FF23">>, <<"U+FF44", "U+FF24">>, <<"U+FF45", "U+FF25">>,
     <<"U+FF46", "U+FF26">>, <<"U+FF47", "U+FF27">>, <<"U+FF48", "U+FF28">>,
     <<"U+FF49", "U+FF29">>, <<"U+FF4A", "U+FF2A">>, <<"U+FF4B", "U+FF2B">>,
     <<"U+FF4C", "U+FF2C">>, <<"U+FF4D", "U+FF2D">>, <<"U+FF4E", "U+FF2E">>,
     <<"U+FF4F", "U+FF2F">>, <<"U+FF50", "U+FF30">>, <<"U+FF51", "U+FF31">>,
     <<"U+FF52", "U+FF32">>, <<"U+FF53", "U+FF33">>, <<"U+FF54", "U+FF34">>,
     <<"U+FF55", "U+FF35">>, <<"U+FF56", "U+FF36">>, <<"U+FF57", "U+FF37">>,
     <<"U+FF58", "U+FF38">>, <<"U+FF59", "U+FF39">>, <<"U+FF5A", "U+FF3A">>,
     <<"U+10428", "U+10400">>, <<"U+10429", "U+10401">>, <<"U+1042A", "U+10402">>,
     <<"U+1042B", "U+10403">>, <<"U+1042C", "U+10404">>, <<"U+1042D", "U+10405">>,
     <<"U+1042E", "U+10406">>, <<"U+1042F", "U+10407">>, <<"U+10430", "U+10408">>,
     <<"U+10431", "U+10409">>, <<"U+10432", "U+1040A">>, <<"U+10433", "U+1040B">>,
     <<"U+10434", "U+1040C">>, <<"U+10435", "U+1040D">>, <<"U+10436", "U+1040E">>,
     <<"U+10437", "U+1040F">>, <<"U+10438", "U+10410">>, <<"U+10439", "U+10411">>,
     <<"U+1043A", "U+10412">>, <<"U+1043B", "U+10413">>, <<"U+1043C", "U+10414">>,
     <<"U+1043D", "U+10415">>, <<"U+1043E", "U+10416">>, <<"U+1043F", "U+10417">>,
     <<"U+10440", "U+10418">>, <<"U+10441", "U+10419">>, <<"U+10442", "U+1041A">>,
     <<"U+10443", "U+1041B">>, <<"U+10444", "U+1041C">>, <<"U+10445", "U+1041D">>,
     <<"U+10446", "U+1041E">>, <<"U+10447", "U+1041F">>, <<"U+10448", "U+10420">>,
     <<"U+10449", "U+10421">>, <<"U+1044A", "U+10422">>, <<"U+1044B", "U+10423">>,
     <<"U+1044C", "U+10424">>, <<"U+1044D", "U+10425">>, <<"U+1044E", "U+10426">>,
     <<"U+1044F", "U+10427">>, <<"U+104D8", "U+104B0">>, <<"U+104D9", "U+104B1">>,
     <<"U+104DA", "U+104B2">>, <<"U+104DB", "U+104B3">>, <<"U+104DC", "U+104B4">>,
     <<"U+104DD", "U+104B5">>, <<"U+104DE", "U+104B6">>, <<"U+104DF", "U+104B7">>,
     <<"U+104E0", "U+104B8">>, <<"U+104E1", "U+104B9">>, <<"U+104E2", "U+104BA">>,
     <<"U+104E3", "U+104BB">>, <<"U+104E4", "U+104BC">>, <<"U+104E5", "U+104BD">>,
     <<"U+104E6", "U+104BE">>, <<"U+104E7", "U+104BF">>, <<"U+104E8", "U+104C0">>,
     <<"U+104E9", "U+104C1">>, <<"U+104EA", "U+104C2">>, <<"U+104EB", "U+104C3">>,
     <<"U+104EC", "U+104C4">>, <<"U+104ED", "U+104C5">>, <<"U+104EE", "U+104C6">>,
     <<"U+104EF", "U+104C7">>, <<"U+104F0", "U+104C8">>, <<"U+104F1", "U+104C9">>,
     <<"U+104F2", "U+104CA">>, <<"U+104F3", "U+104CB">>, <<"U+104F4", "U+104CC">>,
     <<"U+104F5", "U+104CD">>, <<"U+104F6", "U+104CE">>, <<"U+104F7", "U+104CF">>,
     <<"U+104F8", "U+104D0">>, <<"U+104F9", "U+104D1">>, <<"U+104FA", "U+104D2">>,
     <<"U+104FB", "U+104D3">>, <<"U+10597", "U+10570">>, <<"U+10598", "U+10571">>,
     <<"U+10599", "U+10572">>, <<"U+1059A", "U+10573">>, <<"U+1059B", "U+10574">>,
     <<"U+1059C", "U+10575">>, <<"U+1059D", "U+10576">>, <<"U+1059E", "U+10577">>,
     <<"U+1059F", "U+10578">>, <<"U+105A0", "U+10579">>, <<"U+105A1", "U+1057A">>,
     <<"U+105A3", "U+1057C">>, <<"U+105A4", "U+1057D">>, <<"U+105A5", "U+1057E">>,
     <<"U+105A6", "U+1057F">>, <<"U+105A7", "U+10580">>, <<"U+105A8", "U+10581">>,
     <<"U+105A9", "U+10582">>, <<"U+105AA", "U+10583">>, <<"U+105AB", "U+10584">>,
     <<"U+105AC", "U+10585">>, <<"U+105AD", "U+10586">>, <<"U+105AE", "U+10587">>,
     <<"U+105AF", "U+10588">>, <<"U+105B0", "U+10589">>, <<"U+105B1", "U+1058A">>,
     <<"U+105B3", "U+1058C">>, <<"U+105B4", "U+1058D">>, <<"U+105B5", "U+1058E">>,
     <<"U+105B6", "U+1058F">>, <<"U+105B7", "U+10590">>, <<"U+105B8", "U+10591">>,
     <<"U+105B9", "U+10592">>, <<"U+105BB", "U+10594">>, <<"U+105BC", "U+10595">>,
     <<"U+10CC0", "U+10C80">>, <<"U+10CC1", "U+10C81">>, <<"U+10CC2", "U+10C82">>,
     <<"U+10CC3", "U+10C83">>, <<"U+10CC4", "U+10C84">>, <<"U+10CC5", "U+10C85">>,
     <<"U+10CC6", "U+10C86">>, <<"U+10CC7", "U+10C87">>, <<"U+10CC8", "U+10C88">>,
     <<"U+10CC9", "U+10C89">>, <<"U+10CCA", "U+10C8A">>, <<"U+10CCB", "U+10C8B">>,
     <<"U+10CCC", "U+10C8C">>, <<"U+10CCD", "U+10C8D">>, <<"U+10CCE", "U+10C8E">>,
     <<"U+10CCF", "U+10C8F">>, <<"U+10CD0", "U+10C90">>, <<"U+10CD1", "U+10C91">>,
     <<"U+10CD2", "U+10C92">>, <<"U+10CD3", "U+10C93">>, <<"U+10CD4", "U+10C94">>,
     <<"U+10CD5", "U+10C95">>, <<"U+10CD6", "U+10C96">>, <<"U+10CD7", "U+10C97">>,
     <<"U+10CD8", "U+10C98">>, <<"U+10CD9", "U+10C99">>, <<"U+10CDA", "U+10C9A">>,
     <<"U+10CDB", "U+10C9B">>, <<"U+10CDC", "U+10C9C">>, <<"U+10CDD", "U+10C9D">>,
     <<"U+10CDE", "U+10C9E">>, <<"U+10CDF", "U+10C9F">>, <<"U+10CE0", "U+10CA0">>,
     <<"U+10CE1", "U+10CA1">>, <<"U+10CE2", "U+10CA2">>, <<"U+10CE3", "U+10CA3">>,
     <<"U+10CE4", "U+10CA4">>, <<"U+10CE5", "U+10CA5">>, <<"U+10CE6", "U+10CA6">>,
     <<"U+10CE7", "U+10CA7">>, <<"U+10CE8", "U+10CA8">>, <<"U+10CE9", "U+10CA9">>,
     <<"U+10CEA", "U+10CAA">>, <<"U+10CEB", "U+10CAB">>, <<"U+10CEC", "U+10CAC">>,
     <<"U+10CED", "U+10CAD">>, <<"U+10CEE", "U+10CAE">>, <<"U+10CEF", "U+10CAF">>,
     <<"U+10CF0", "U+10CB0">>, <<"U+10CF1", "U+10CB1">>, <<"U+10CF2", "U+10CB2">>,
     <<"U+118C0", "U+118A0">>, <<"U+118C1", "U+118A1">>, <<"U+118C2", "U+118A2">>,
     <<"U+118C3", "U+118A3">>, <<"U+118C4", "U+118A4">>, <<"U+118C5", "U+118A5">>,
     <<"U+118C6", "U+118A6">>, <<"U+118C7", "U+118A7">>, <<"U+118C8", "U+118A8">>,
     <<"U+118C9", "U+118A9">>, <<"U+118CA", "U+118AA">>, <<"U+118CB", "U+118AB">>,
     <<"U+118CC", "U+118AC">>, <<"U+118CD", "U+118AD">>, <<"U+118CE", "U+118AE">>,
     <<"U+118CF", "U+118AF">>, <<"U+118D0", "U+118B0">>, <<"U+118D1", "U+118B1">>,
     <<"U+118D2", "U+118B2">>, <<"U+118D3", "U+118B3">>, <<"U+118D4", "U+118B4">>,
     <<"U+118D5", "U+118B5">>, <<"U+118D6", "U+118B6">>, <<"U+118D7", "U+118B7">>,
     <<"U+118D8", "U+118B8">>, <<"U+118D9", "U+118B9">>, <<"U+118DA", "U+118BA">>,
     <<"U+118DB", "U+118BB">>, <<"U+118DC", "U+118BC">>, <<"U+118DD", "U+118BD">>,
     <<"U+118DE", "U+118BE">>, <<"U+118DF", "U+118BF">>, <<"U+16E60", "U+16E40">>,
     <<"U+16E61", "U+16E41">>, <<"U+16E62", "U+16E42">>, <<"U+16E63", "U+16E43">>,
     <<"U+16E64", "U+16E44">>, <<"U+16E65", "U+16E45">>, <<"U+16E66", "U+16E46">>,
     <<"U+16E67", "U+16E47">>, <<"U+16E68", "U+16E48">>, <<"U+16E69", "U+16E49">>,
     <<"U+16E6A", "U+16E4A">>, <<"U+16E6B", "U+16E4B">>, <<"U+16E6C", "U+16E4C">>,
     <<"U+16E6D", "U+16E4D">>, <<"U+16E6E", "U+16E4E">>, <<"U+16E6F", "U+16E4F">>,
     <<"U+16E70", "U+16E50">>, <<"U+16E71", "U+16E51">>, <<"U+16E72", "U+16E52">>,
     <<"U+16E73", "U+16E53">>, <<"U+16E74", "U+16E54">>, <<"U+16E75", "U+16E55">>,
     <<"U+16E76", "U+16E56">>, <<"U+16E77", "U+16E57">>, <<"U+16E78", "U+16E58">>,
     <<"U+16E79", "U+16E59">>, <<"U+16E7A", "U+16E5A">>, <<"U+16E7B", "U+16E5B">>,
     <<"U+16E7C", "U+16E5C">>, <<"U+16E7D", "U+16E5D">>, <<"U+16E7E", "U+16E5E">>,
     <<"U+16E7F", "U+16E5F">>, <<"U+1E922", "U+1E900">>, <<"U+1E923", "U+1E901">>,
     <<"U+1E924", "U+1E902">>, <<"U+1E925", "U+1E903">>, <<"U+1E926", "U+1E904">>,
     <<"U+1E927", "U+1E905">>, <<"U+1E928", "U+1E906">>, <<"U+1E929", "U+1E907">>,
     <<"U+1E92A", "U+1E908">>, <<"U+1E92B", "U+1E909">>, <<"U+1E92C", "U+1E90A">>,
     <<"U+1E92D", "U+1E90B">>, <<"U+1E92E", "U+1E90C">>, <<"U+1E92F", "U+1E90D">>,
     <<"U+1E930", "U+1E90E">>, <<"U+1E931", "U+1E90F">>, <<"U+1E932", "U+1E910">>,
     <<"U+1E933", "U+1E911">>, <<"U+1E934", "U+1E912">>, <<"U+1E935", "U+1E913">>,
     <<"U+1E936", "U+1E914">>, <<"U+1E937", "U+1E915">>, <<"U+1E938", "U+1E916">>,
     <<"U+1E939", "U+1E917">>, <<"U+1E93A", "U+1E918">>, <<"U+1E93B", "U+1E919">>,
     <<"U+1E93C", "U+1E91A">>, <<"U+1E93D", "U+1E91B">>, <<"U+1E93E", "U+1E91C">>,
     <<"U+1E93F", "U+1E91D">>, <<"U+1E940", "U+1E91E">>, <<"U+1E941", "U+1E91F">>,
     <<"U+1E942", "U+1E920">>, <<"U+1E943", "U+1E921">>
    }

\* unicode.ToUpper on one rune: a to z in ASCII, CaseRanges outside it
UpperChar(c) ==
    IF Len(c) = 1
    THEN IF \E i \in 1..26 : LowerCase[i] = c
         THEN UpperCase[CHOOSE i \in 1..26 : LowerCase[i] = c]
         ELSE c
    ELSE IF \E p \in CaseRanges : p[1] = c
         THEN (CHOOSE p \in CaseRanges : p[1] = c)[2]
         ELSE c

\* strings.ToUpper: unicode.ToUpper on every rune, which on a string of
\* ASCII only is the change of a to z
ToUpper(s) == [i \in 1..Len(s) |-> UpperChar(s[i])]

\* vertical tab (U+000B), which has no escape here and is the character
\* itself, next line and no-break space
VT == ""
NEL == "U+0085"
NBSP == "U+00A0"

\* unicode.White_Space beyond Latin-1
White_Space ==
    {"U+1680", "U+2000", "U+2001", "U+2002", "U+2003", "U+2004", "U+2005",
     "U+2006", "U+2007", "U+2008", "U+2009", "U+200A", "U+2028", "U+2029",
     "U+202F", "U+205F", "U+3000"}

\* unicode.IsSpace, the runes strings.TrimSpace strips: in Latin-1 '\t',
\* '\n', '\v', '\f', '\r', ' ', U+0085 and U+00A0, beyond it White_Space
IsSpace(c) == c \in {SP, CR, LF, "\t", "\f", VT, NEL, NBSP} \cup White_Space

\* strings.TrimSpace
TrimSpace(s) ==
    LET keep == {i \in 1..Len(s) : ~IsSpace(s[i])}
    IN  IF keep = {} THEN <<>>
        ELSE LET lo == CHOOSE i \in keep : \A j \in keep : i <= j
                 hi == CHOOSE i \in keep : \A j \in keep : i >= j
             IN  SubSeq(s, lo, hi)

\* strings.Index(s, c) for a one-character c, 1-based; 0 where Go gives -1
Index(s, c) ==
    LET at == {i \in 1..Len(s) : s[i] = c}
    IN  IF at = {} THEN 0 ELSE CHOOSE i \in at : \A j \in at : i <= j

\* strings.Split(s, " "): every single space separates, so that two spaces in
\* a row give an empty string and Split("", " ") is [""]
RECURSIVE Split(_)
Split(s) ==
    LET i == Index(s, SP)
    IN  IF i = 0 THEN <<s>>
        ELSE <<SubSeq(s, 1, i - 1)>> \o Split(SubSeq(s, i + 1, Len(s)))

\* parseLine: the verb (upper-cased) and the arguments of a line
parseLine(l) ==
    LET i == Index(l, SP)
    IN  IF i = 0
        THEN [verb |-> ToUpper(TrimSpace(l)), args |-> <<>>]
        ELSE [verb |-> ToUpper(SubSeq(l, 1, i - 1)),
              args |-> Split(TrimSpace(SubSeq(l, i + 1, Len(l))))]

-----------------------------------------------------------------------------
(* Addresses.                                                              *)

\* a nil *MailAddress; no parse gives it, both groups of the regular
\* expressions being .+
nil == [Local |-> <<>>, Domain |-> <<>>]

\* s has the letters of `word` (given in upper case) at positions i.., in
\* either case: [Ff][Rr][Oo][Mm] and [Tt][Oo]
HasWordAt(s, i, word) ==
    /\ i + Len(word) - 1 <= Len(s)
    /\ \A k \in 1..Len(word) : UpperChar(s[i + k - 1]) = word[k]

\* the largest element of a non-empty set of numbers
Max(S) == CHOOSE x \in S : \A y \in S : x >= y

\* the smallest element of a non-empty set of numbers
Min(S) == CHOOSE x \in S : \A y \in S : x <= y

\* Where  word:[ ]?<  can end in s: the positions of a '<' that follows
\* word and ':' (in either case of the letters), with one space between them
\* if optSpace (fromRegex has the [\ ]?, toRegex has not).
PathStarts(s, word, optSpace) ==
    {j \in 1..Len(s) :
        /\ s[j] = "<"
        /\ \/ /\ j - Len(word) - 1 >= 1
              /\ HasWordAt(s, j - Len(word) - 1, word \o <<":">>)
           \/ /\ optSpace
              /\ j - Len(word) - 2 >= 1
              /\ s[j - 1] = SP
              /\ HasWordAt(s, j - Len(word) - 2, word \o <<":">>)}

\* the positions after j that a group (.+) may run over: up to the next
\* line feed, which . does not match
DotEnd(s, j) ==
    LET nl == {k \in (j + 1)..Len(s) : s[k] = LF}
    IN  IF nl = {} THEN Len(s) ELSE Min(nl) - 1

\* the '>' that can end group 2 when group 1 ends before the '@' at p
Closers(s, j, p) == {q \in (p + 2)..DotEnd(s, j) : s[q] = ">"}

\* the '@' that can end group 1 of a match whose '<' is at j
Ats(s, j) ==
    {p \in (j + 2)..DotEnd(s, j) : s[p] = "@" /\ Closers(s, j, p) # {}}

\* regexp.FindStringSubmatch for  word:[ ]?<(.+)@(.+)>  as a MailAddress, or
\* nil: the leftmost match, each group as long as it can be, group 1 first
PathSubmatch(s, word, optSpace) ==
    LET js == {j \in PathStarts(s, word, optSpace) : Ats(s, j) # {}}
    IN  IF js = {} THEN nil
        ELSE LET j == Min(js)
                 p == Max(Ats(s, j))
                 q == Max(Closers(s, j, p))
             IN  [Local  |-> SubSeq(s, j + 1, p - 1),
                  Domain |-> SubSeq(s, p + 1, q - 1)]

\* parseFROM: fromRegex on args[0]
parseFROM(args) ==
    IF Len(args) < 1 THEN nil
    ELSE PathSubmatch(args[1], <<"F","R","O","M">>, TRUE)

\* parseTO: toRegex on args[0]
parseTO(args) ==
    IF Len(args) < 1 THEN nil
    ELSE PathSubmatch(args[1], <<"T","O">>, FALSE)

-----------------------------------------------------------------------------
(* The lines a client sends.                                               *)

\* HELO client.example<CR><LF>
L_HELO ==
    <<"H","E","L","O"," ","c","l","i","e","n","t",".","e","x","a","m","p",
    "l","e","\r","\n">>
\* EHLO client.example<CR><LF>
L_EHLO ==
    <<"E","H","L","O"," ","c","l","i","e","n","t",".","e","x","a","m","p",
    "l","e","\r","\n">>
\* MAIL FROM:<a@b.example><CR><LF>
L_MAIL ==
    <<"M","A","I","L"," ","F","R","O","M",":","<","a","@","b",".","e","x",
    "a","m","p","l","e",">","\r","\n">>
\* mail from:<e@f.example><CR><LF>
L_MAIL2 ==
    <<"m","a","i","l"," ","f","r","o","m",":","<","e","@","f",".","e","x",
    "a","m","p","l","e",">","\r","\n">>
\* MAIL a@b.example<CR><LF>
L_MAILBAD ==
    <<"M","A","I","L"," ","a","@","b",".","e","x","a","m","p","l","e",
    "\r","\n">>
\* RCPT TO:<c@d.example><CR><LF>
L_RCPT ==
    <<"R","C","P","T"," ","T","O",":","<","c","@","d",".","e","x","a","m",
    "p","l","e",">","\r","\n">>
\* RCPT c@d.example<CR><LF>
L_RCPTBAD ==
    <<"R","C","P","T"," ","c","@","d",".","e","x","a","m","p","l","e",
    "\r","\n">>
\* DATA<CR><LF>
L_DATA == <<"D","A","T","A","\r","\n">>
\* Hello<CR><LF>
L_BODY == <<"H","e","l","l","o","\r","\n">>
\* .<CR><LF>
L_DOT == <<".","\r","\n">>
\* RSET<CR><LF>
L_RSET == <<"R","S","E","T","\r","\n">>
\* NOOP<CR><LF>
L_NOOP == <<"N","O","O","P","\r","\n">>
\* QUIT<CR><LF>
L_QUIT == <<"Q","U","I","T","\r","\n">>
\* STARTTLS<CR><LF>
L_STARTTLS == <<"S","T","A","R","T","T","L","S","\r","\n">>
\* AUTH LOGIN<CR><LF>
L_AUTH == <<"A","U","T","H"," ","L","O","G","I","N","\r","\n">>
\* dXNlcg==<CR><LF>
L_USER == <<"d","X","N","l","c","g","=","=","\r","\n">>
\* cGFzcw==<CR><LF>
L_PASS == <<"c","G","F","z","c","w","=","=","\r","\n">>

\* AUTH PLAIN<CR><LF>
L_AUTHPLAIN == <<"A","U","T","H"," ","P","L","A","I","N","\r","\n">>
\* VRFY user<CR><LF>
L_VRFY == <<"V","R","F","Y"," ","u","s","e","r","\r","\n">>
\* EXPN list<CR><LF>
L_EXPN == <<"E","X","P","N"," ","l","i","s","t","\r","\n">>
\* SEND<CR><LF>
L_SEND == <<"S","E","N","D","\r","\n">>
\* SOML<CR><LF>
L_SOML == <<"S","O","M","L","\r","\n">>
\* SAML<CR><LF>
L_SAML == <<"S","A","M","L","\r","\n">>
\* <CR><LF>: a blank line
L_BLANK == <<"\r","\n">>
\* NOOP xxx...x<CR><LF>, with MaxCmdLine x: a command line longer than the
\* limit
L_LONG ==
    <<"N","O","O","P"," ">> \o [i \in 1..MaxCmdLine |-> "x"] \o <<"\r","\n">>

\* what an interactive client may send as a command or as a credential,
\* one line at a time
Lines ==
    {L_HELO, L_EHLO, L_MAIL, L_MAIL2, L_MAILBAD, L_RCPT, L_RCPTBAD, L_DATA,
     L_BODY, L_DOT, L_RSET, L_NOOP, L_QUIT, L_STARTTLS, L_AUTH, L_USER,
     L_PASS, L_AUTHPLAIN, L_VRFY, L_EXPN, L_SEND, L_SOML, L_SAML, L_BLANK,
     L_LONG}

\* ..foo<CR><LF>: the body line .foo, dot-stuffed
L_STUFFED == <<".",".","f","o","o","\r","\n">>
\* .bar<CR><LF>
L_DOTBAR == <<".","b","a","r","\r","\n">>
\* .<LF>
L_DOTLF == <<".","\n">>

\* .<CR>
L_DOTCR == <<".","\r">>
\* Hi
L_HI == <<"H","i">>

\* what it may send last, with no line feed behind it
Fragments == {L_DOTCR, L_HI}

\* what it may send while the session reads a body
DataLines == {L_BODY, L_DOT, L_BLANK, L_QUIT, L_STUFFED, L_DOTBAR, L_DOTLF}

\* a whole submission session written up front
Session ==
    <<L_EHLO, L_AUTH, L_USER, L_PASS, L_MAIL, L_RCPT, L_DATA, L_BODY, L_DOT,
      L_QUIT>>

\* the subsequence of s at the positions in `keep`
RECURSIVE Pick(_, _)
Pick(s, keep) ==
    IF s = <<>> THEN <<>>
    ELSE (IF Len(s) \in keep THEN Pick(SubSeq(s, 1, Len(s) - 1), keep)
                                   \o <<s[Len(s)]>>
          ELSE Pick(SubSeq(s, 1, Len(s) - 1), keep))

\* the scripts: Session with any of its lines left out
Scripts == {Pick(Session, keep) : keep \in SUBSET (1..Len(Session))}

-----------------------------------------------------------------------------
(* Replies.                                                                *)

\* srv.config.Hostname
Hostname == "mx.example"

\* one reply line "%d %s\r\n" (sep " ") or "%d-%s\r\n" (sep "-")
Reply(code, sep, str) == [code |-> code, sep |-> sep, text |-> str]

\* the decimal digits in order, and %d of a number that is not negative
DecimalDigits == <<"0","1","2","3","4","5","6","7","8","9">>

RECURSIVE Itoa(_)
Itoa(n) ==
    IF n < 10
    THEN <<DecimalDigits[n + 1]>>
    ELSE Append(Itoa(n \div 10), DecimalDigits[(n % 10) + 1])

\* a reply line formatted with "%d %s\n"
Fprintf_LFOnly(r) == Itoa(r.code) \o <<r.sep, r.text, LF>>

\* fmt.Fprintf(conn.c, "%d %s\r\n", code, str) and its "%d-%s\r\n" form: the
\* bytes of one reply line, the text kept in one piece
Fprintf(r) == Itoa(r.code) \o <<r.sep, r.text, CR, LF>>

\* conn.c after writing the reply lines rs: a write to a closed connection
\* fails and its error is dropped
Sent(rs) == IF closed THEN wire ELSE wire \o rs

\* conn.write
write(code, str) == wire' = Sent(<<Reply(code, " ", str)>>)

\* conn.writeMultiLine that writes every line as conn.write does
writeMultiLine_AllSpace(code, strs) ==
    wire' = Sent([i \in 1..Len(strs) |-> Reply(code, " ", strs[i])])

\* conn.writeMultiLine
writeMultiLine(code, strs) ==
    wire' = Sent([i \in 1..Len(strs) |->
                    Reply(code, IF i = Len(strs) THEN " " ELSE "-", strs[i])])

\* conn.reset that forgets the body
reset_KeepMsg ==
    /\ from' = nil
    /\ to' = <<>>
    /\ msg' = msg

\* conn.reset
reset ==
    /\ from' = nil
    /\ to' = <<>>
    /\ msg' = <<>>

-----------------------------------------------------------------------------
(* Reading through conn.br.                                                *)

\* ReadString('\n') returns: a line is there, or the stream has ended or the
\* connection is closed; otherwise the read blocks
CanRead == rx # <<>> \/ eof \/ closed

\* what ReadString('\n') returns: the next line; or, where the stream ends
\* in the middle of a line, the unfinished rest of it; or "" when the read
\* fails with nothing buffered.  The error that comes with the last two is
\* dropped by every caller.
ReadString == IF rx # <<>> THEN Head(rx) ELSE <<>>

\* conn.br after that read
AfterRead == IF rx # <<>> THEN Tail(rx) ELSE rx

\* the number of lines in a body
BodyLines(m) == Cardinality({i \in 1..Len(m) : m[i] = LF})

-----------------------------------------------------------------------------
(* base64.                                                                 *)

Base64Chars ==
    {LowerCase[i] : i \in 1..26} \cup {UpperCase[i] : i \in 1..26}
        \cup Digits \cup {"+", "/"}

\* base64.StdEncoding.DecodeString(s) returns no error: line ends are skipped,
\* what is left is whole quanta of four characters, padded with = at the end
Base64Valid(s) ==
    LET t == SelectSeq(s, LAMBDA c : c \notin {CR, LF})
        n == Len(t)
        pad == IF n >= 2 /\ t[n] = "=" /\ t[n - 1] = "=" THEN 2
               ELSE IF n >= 1 /\ t[n] = "=" THEN 1 ELSE 0
    IN  /\ n % 4 = 0
        /\ \A i \in 1..(n - pad) : t[i] \in Base64Chars

\* the alphabet of base64.StdEncoding, in the order of its values 0..63
Base64Alphabet ==
    UpperCase \o LowerCase
        \o <<"0","1","2","3","4","5","6","7","8","9","+","/">>

\* the six bits a character stands for; the padding stands for none
Base64Value(c) ==
    IF c = "=" THEN 0 ELSE (CHOOSE i \in 1..64 : Base64Alphabet[i] = c) - 1

\* base64.StdEncoding.DecodeString(s) where it returns no error: the bytes,
\* three for each quantum of four characters, less the padded ones
DecodeString(s) ==
    LET t == SelectSeq(s, LAMBDA c : c \notin {CR, LF})
        n == Len(t)
        pad == IF n >= 2 /\ t[n] = "=" /\ t[n - 1] = "=" THEN 2
               ELSE IF n >= 1 /\ t[n] = "=" THEN 1 ELSE 0
        bits(k) == Base64Value(t[4 * k - 3]) * 262144
                     + Base64Value(t[4 * k - 2]) * 4096
                     + Base64Value(t[4 * k - 1]) * 64
                     + Base64Value(t[4 * k])
        byte(i) == LET v == bits((i - 1) \div 3 + 1)
                       r == (i - 1) % 3
                   IN  IF r = 0 THEN v \div 65536
                       ELSE IF r = 1 THEN (v \div 256) % 256
                       ELSE v % 256
    IN  [i \in 1..(3 * (n \div 4) - pad) |-> byte(i)]

-----------------------------------------------------------------------------
(* The users (package user).  Names and passwords are byte strings.        *)

\* UserDB.Users: one user, "user", whose password is "pass"
Users ==
    [n \in {<<117, 115, 101, 114>>} |->
        [Name |-> n, Password |-> <<112, 97, 115, 115>>]]

\* UserDB.UserExists
UserExists(name) == name \in DOMAIN Users

\* User.CheckPassword
CheckPassword(u, password) == password = u.Password

-----------------------------------------------------------------------------
(* The role: MTA and MSA implement smtper.                                 *)

\* MTA.extensions
MTA_extensions == <<>>

\* MSA.extensions
MSA_extensions ==
    (IF tlsConfig THEN <<"STARTTLS">> ELSE <<>>)
        \o (IF tls \/ ~tlsConfig THEN <<"AUTH LOGIN">> ELSE <<>>)

\* conn.srv.extensions(conn)
extensions == IF role = "MTA" THEN MTA_extensions ELSE MSA_extensions

\* MSA.authenticated
MSA_authenticated == TRUE

\* MSA.validateFrom
MSA_validateFrom == TRUE

\* a handler that returns without a reply and without a change
noReply == pc' = "cmd" /\ UNCHANGED <<wire, closed, from, to, msg, tls>>

\* a handler that only replies
replyOnly(code, str) ==
    /\ write(code, str)
    /\ pc' = "cmd"
    /\ UNCHANGED <<closed, from, to, msg, tls>>

\* MTA.handleMail: an empty body
MTA_handleMail(args) == noReply

\* MSA.handleMail
MSA_handleMail(args) ==
    IF ~MSA_authenticated THEN noReply
    ELSE IF from # nil THEN replyOnly(503, "Sender already specified")
    ELSE IF parseFROM(args) = nil THEN replyOnly(501, "Invalid syntax")
    ELSE IF ~MSA_validateFrom THEN noReply
    ELSE /\ from' = parseFROM(args)
         /\ write(250, "OK")
         /\ pc' = "cmd"
         /\ UNCHANGED <<closed, to, msg, tls>>

\* conn.srv.handleMail(conn, args)
handleMail(args) ==
    IF role = "MTA" THEN MTA_handleMail(args) ELSE MSA_handleMail(args)

\* MSA.handleAUTH up to its first read; the exchange goes on in AuthUser
MSA_handleAUTH(args) ==
    IF ~tls /\ tlsConfig THEN replyOnly(502, "Enable tls before sending AUTH")
    ELSE IF Len(args) # 1 THEN replyOnly(501, "Error parsing arguments")
    ELSE IF ToUpper(args[1]) # <<"L","O","G","I","N">>
    THEN replyOnly(504, "Not supported")
    ELSE /\ write(334, "VXNlcm5hbWU6")
         /\ pc' = "authUser"
         /\ UNCHANGED <<closed, from, to, msg, tls>>

\* MSA.handleSTARTTLS without its check of conn.tls
MSA_handleSTARTTLS_NoTlsCheck(args) ==
    IF ~tlsConfig THEN replyOnly(502, "TLS not supported")
    ELSE /\ write(220, "Go ahead")
         /\ pc' = "handshake"
         /\ UNCHANGED <<closed, from, to, msg, tls>>

\* MSA.handleSTARTTLS up to the handshake, which goes on in Handshake
MSA_handleSTARTTLS(args) ==
    IF tls THEN replyOnly(502, "Already in tls")
    ELSE IF ~tlsConfig THEN replyOnly(502, "TLS not supported")
    ELSE /\ write(220, "Go ahead")
         /\ pc' = "handshake"
         /\ UNCHANGED <<closed, from, to, msg, tls>>

\* MTA.extension / MSA.extension: the handler of an extension verb, if any
extension(verb) ==
    IF role = "MTA" THEN "nil"
    ELSE IF verb = <<"A","U","T","H">> THEN "handleAUTH"
    ELSE IF verb = <<"S","T","A","R","T","T","L","S">> THEN "handleSTARTTLS"
    ELSE "nil"

-----------------------------------------------------------------------------
(* The handlers of conn.                                                   *)

\* conn.handleHELO
handleHELO(args) == replyOnly(250, Hostname)

\* conn.handleEHLO
handleEHLO(args) ==
    /\ reset
    /\ writeMultiLine(250, <<Hostname>> \o extensions)
    /\ pc' = "cmd"
    /\ UNCHANGED <<closed, tls>>

\* conn.handleRCPT without its check of conn.from
handleRCPT_NoMailCheck(args) ==
    IF parseTO(args) = nil THEN replyOnly(501, "Invalid syntax")
    ELSE /\ to' = Append(to, parseTO(args))
         /\ write(250, "OK")
         /\ pc' = "cmd"
         /\ UNCHANGED <<closed, from, msg, tls>>

\* conn.handleRCPT
handleRCPT(args) ==
    IF from = nil THEN replyOnly(503, "Need MAIL before RCPT")
    ELSE IF parseTO(args) = nil THEN replyOnly(501, "Invalid syntax")
    ELSE /\ to' = Append(to, parseTO(args))
         /\ write(250, "OK")
         /\ pc' = "cmd"
         /\ UNCHANGED <<closed, from, msg, tls>>

\* conn.handleDATA without its check of conn.to
handleDATA_NoRcptCheck(args) ==
    IF from = nil THEN replyOnly(503, "Need MAIL before DATA")
    ELSE /\ write(354, "Accepting mail input")
         /\ pc' = "data"
         /\ UNCHANGED <<closed, from, to, msg, tls>>

\* conn.handleDATA with its two checks folded into one
handleDATA_OneCheck(args) ==
    IF from = nil \/ Len(to) < 1
    THEN replyOnly(503, "Need MAIL before DATA")
    ELSE /\ write(354, "Accepting mail input")
         /\ pc' = "data"
         /\ UNCHANGED <<closed, from, to, msg, tls>>

\* conn.handleDATA up to its loop, which goes on in DataLine
handleDATA(args) ==
    IF from = nil THEN replyOnly(503, "Need MAIL before DATA")
    ELSE IF Len(to) < 1 THEN replyOnly(503, "Need RCPT before DATA")
    ELSE /\ write(354, "Accepting mail input")
         /\ pc' = "data"
         /\ UNCHANGED <<closed, from, to, msg, tls>>

\* conn.handleRSET
handleRSET(args) ==
    /\ reset
    /\ write(250, "OK")
    /\ pc' = "cmd"
    /\ UNCHANGED <<closed, tls>>

\* conn.handleNOOP that clears the envelope as RSET does
handleNOOP_Resets(args) ==
    /\ reset
    /\ write(250, "OK")
    /\ pc' = "cmd"
    /\ UNCHANGED <<closed, tls>>

\* conn.handleNOOP
handleNOOP(args) == replyOnly(250, "OK")

\* conn.handleQUIT: the loop of serve goes on after it
handleQUIT(args) ==
    /\ write(221, "Bye!")
    /\ closed' = TRUE
    /\ pc' = "cmd"
    /\ UNCHANGED <<from, to, msg, tls>>

\* the default case of serve's switch
handleDefault(verb, args) ==
    CASE extension(verb) = "nil" -> replyOnly(500, "Command unrecognized")
      [] extension(verb) = "handleAUTH" -> MSA_handleAUTH(args)
      [] extension(verb) = "handleSTARTTLS" -> MSA_handleSTARTTLS(args)

\* the switch of serve on the verb of a line
dispatch(verb, args) ==
    CASE verb = <<"H","E","L","O">> -> handleHELO(args)
      [] verb = <<"E","H","L","O">> -> handleEHLO(args)
      [] verb = <<"M","A","I","L">> -> handleMail(args)
      [] verb = <<"R","C","P","T">> -> handleRCPT(args)
      [] verb = <<"D","A","T","A">> -> handleDATA(args)
      [] verb = <<"R","S","E","T">> -> handleRSET(args)
      [] verb \in {<<"V","R","F","Y">>, <<"E","X","P","N">>,
                   <<"S","E","N","D">>, <<"S","O","M","L">>,
                   <<"S","A","M","L">>} ->
            replyOnly(502, "Command not implemented")
      [] verb = <<"N","O","O","P">> -> handleNOOP(args)
      [] verb = <<"Q","U","I","T">> -> handleQUIT(args)
      [] OTHER -> handleDefault(verb, args)

-----------------------------------------------------------------------------
(* The steps of a session: from one blocking read to the next.             *)

\* serve before its loop: the greeting, Hostname + " GoPistolet ESMTP"
Greet ==
    /\ pc = "start"
    /\ write(220, "mx.example GoPistolet ESMTP")
    /\ pc' = "cmd"
    /\ UNCHANGED <<lib, conf, auth, username,
                   rx, eof, closed, line, data, from, to, msg, tls>>

\* one turn of serve's loop: read a line, skip it if it is "", else handle it
ServeCmd ==
    /\ pc = "cmd"
    /\ CanRead
    /\ line' = ReadString
    /\ rx' = AfterRead
    /\ IF ReadString = <<>>
       THEN UNCHANGED <<wire, closed, pc, from, to, msg, tls>>
       ELSE dispatch(parseLine(ReadString).verb, parseLine(ReadString).args)
    /\ UNCHANGED <<lib, conf, auth, username, eof, data>>

\* the test for the end of a body that knows .<CR><LF> only
IsEndOfData_CRLFOnly(d) == d = <<".", CR, LF>>

\* the three lines that end a body
IsEndOfData(d) == d \in {<<".", CR, LF>>, <<".", CR>>, <<".", LF>>}

\* one turn of handleDATA's loop, and what follows the loop
DataLine ==
    /\ pc = "data"
    /\ CanRead
    /\ data' = ReadString
    /\ rx' = AfterRead
    /\ IF IsEndOfData(ReadString)
       THEN /\ reset
            /\ write(250, "OK")
            /\ pc' = "cmd"
            /\ UNCHANGED <<closed, tls>>
       ELSE /\ msg' = msg \o ReadString
            /\ UNCHANGED <<wire, closed, pc, from, to, tls>>
    /\ UNCHANGED <<lib, conf, auth, username, eof, line>>

\* handleAUTH from the read of the user name to the read of the password
AuthUser ==
    /\ pc = "authUser"
    /\ CanRead
    /\ rx' = AfterRead
    /\ IF ~Base64Valid(ReadString)
       THEN /\ write(500, "Not base64")
            /\ username' = <<>>
            /\ pc' = "cmd"
       ELSE /\ write(334, "UGFzc3dvcmQ6")
            /\ username' = DecodeString(ReadString)
            /\ pc' = "authPass"
    /\ UNCHANGED <<lib, conf, auth,
                   eof, closed, line, data, from, to, msg, tls>>

\* handleAUTH from the read of the password to its end
AuthPass ==
    /\ pc = "authPass"
    /\ CanRead
    /\ rx' = AfterRead
    /\ IF ~Base64Valid(ReadString)
       THEN write(500, "Not base64")
       ELSE write(235, "OK")
    /\ username' = <<>>
    /\ pc' = "cmd"
    /\ UNCHANGED <<lib, conf, auth,
                   eof, closed, line, data, from, to, msg, tls>>

\* conn.br left as it is, with what it has buffered
rebind_KeepBuffer == rx' = rx

\* conn.c = tlsConn; conn.br = bufio.NewReader(conn.c): the new reader
\* starts empty, and what the old one had buffered is gone with it
rebind == rx' = <<>>

\* the upgrade that also takes the TLS configuration off the Server, for
\* STARTTLS to be offered no more
upgrade_OnServer == tls' = TRUE /\ tlsConfig' = FALSE

\* conn.tls = true: the flag of this conn is set; the Server, which every
\* conn points to, is written by no handler
upgrade == tls' = TRUE /\ UNCHANGED tlsConfig

\* the handshake step that keeps the envelope when it succeeds
Handshake_NoReset ==
    /\ pc = "handshake"
    /\ \E ok \in BOOLEAN :
          /\ ok => ~eof /\ ~closed
          /\ IF ok
             THEN /\ tls' = TRUE
                  /\ rx' = <<>>
                  /\ UNCHANGED <<wire, from, to, msg>>
             ELSE /\ write(550, "Handshake error")
                  /\ UNCHANGED <<rx, from, to, msg, tls>>
    /\ pc' = "cmd"
    /\ UNCHANGED <<lib, conf, auth, username, eof, closed, line, data>>

\* handleSTARTTLS from the handshake on: tlsConn.Handshake() fails or
\* succeeds, as the client and the transport decide
Handshake ==
    /\ pc = "handshake"
    /\ \E ok \in BOOLEAN :
          /\ ok => ~eof /\ ~closed
          /\ IF ok
             THEN /\ upgrade
                  /\ rebind
                  /\ reset
                  /\ UNCHANGED wire
             ELSE /\ write(550, "Handshake error")
                  /\ UNCHANGED <<rx, from, to, msg, tls, tlsConfig>>
    /\ pc' = "cmd"
    /\ UNCHANGED <<lib, role, script, auth, username, eof, closed, line,
                   data>>

-----------------------------------------------------------------------------
(* The Conn whose serve handles every command inline.  It has no roles and  *)
(* no TLS; it has the field auth.  serve returns after QUIT and out of the  *)
(* AUTH case, and its deferred conn.c.Close() then closes the connection.   *)

\* a case of the switch that only replies
Conn_reply(code, str) ==
    /\ write(code, str)
    /\ pc' = "cmd"
    /\ UNCHANGED <<closed, from, to, msg, auth>>

\* a case of the switch that replies and returns from serve
Conn_replyAndReturn(code, str) ==
    /\ write(code, str)
    /\ closed' = TRUE
    /\ pc' = "done"
    /\ UNCHANGED <<from, to, msg, auth>>

\* case "EHLO"
Conn_EHLO(args) ==
    /\ reset
    /\ writeMultiLine(250, <<"GoPistolet ESMTP", "AUTH LOGIN">>)
    /\ pc' = "cmd"
    /\ UNCHANGED <<closed, auth>>

\* case "MAIL" up to the call of from.HasReverseDns(conn), which asks the
\* resolver for the names of the client's address and is made only while
\* conn.auth is not set: serve waits for the answer with the line read and
\* nothing replied, and goes on in Conn_Lookup.  (No sender of the lines
\* here has an IP literal for its domain, which is compared at once.)
Conn_MAIL(args) ==
    IF from # nil THEN Conn_reply(503, "Sender already specified")
    ELSE IF parseFROM(args) = nil THEN Conn_reply(501, "Invalid syntax")
    ELSE IF ~auth
    THEN /\ pc' = "lookup"
         /\ UNCHANGED <<wire, closed, from, to, msg, auth>>
    ELSE /\ from' = parseFROM(args)
         /\ write(250, "OK")
         /\ pc' = "cmd"
         /\ UNCHANGED <<closed, to, msg, auth>>

\* case "RCPT"
Conn_RCPT(args) ==
    IF from = nil THEN Conn_reply(503, "Need MAIL before RCPT")
    ELSE IF parseTO(args) = nil THEN Conn_reply(501, "Invalid syntax")
    ELSE /\ to' = Append(to, parseTO(args))
         /\ write(250, "OK")
         /\ pc' = "cmd"
         /\ UNCHANGED <<closed, from, msg, auth>>

\* case "DATA" up to its loop, which goes on in Conn_DataLine: the check of
\* conn.to writes its 503 and, having no break, goes on to the 354
Conn_DATA(args) ==
    IF from = nil THEN Conn_reply(503, "Need MAIL before DATA")
    ELSE /\ wire' = Sent((IF Len(to) < 1
                          THEN <<Reply(503, " ", "Need RCPT before DATA")>>
                          ELSE <<>>)
                         \o <<Reply(354, " ", "Accepting mail input")>>)
         /\ pc' = "data"
         /\ UNCHANGED <<closed, from, to, msg, auth>>

\* case "RSET"
Conn_RSET(args) ==
    /\ reset
    /\ write(250, "OK")
    /\ pc' = "cmd"
    /\ UNCHANGED <<closed, auth>>

\* case "AUTH" up to its first read; the exchange goes on in Conn_AuthUser
Conn_AUTH(args) ==
    IF Len(args) # 1 THEN Conn_replyAndReturn(501, "Error parsing arguments")
    ELSE IF ToUpper(args[1]) # <<"L","O","G","I","N">>
    THEN Conn_replyAndReturn(504, "Not supported")
    ELSE /\ write(334, "VXNlcm5hbWU6")
         /\ pc' = "authUser"
         /\ UNCHANGED <<closed, from, to, msg, auth>>

\* the switch of Conn.serve on the verb of a line
Conn_switch(verb, args) ==
    CASE verb = <<"H","E","L","O">> -> Conn_reply(250, "GoPistolet")
      [] verb = <<"E","H","L","O">> -> Conn_EHLO(args)
      [] verb = <<"M","A","I","L">> -> Conn_MAIL(args)
      [] verb = <<"R","C","P","T">> -> Conn_RCPT(args)
      [] verb = <<"D","A","T","A">> -> Conn_DATA(args)
      [] verb = <<"R","S","E","T">> -> Conn_RSET(args)
      [] verb \in {<<"V","R","F","Y">>, <<"E","X","P","N">>} ->
            Conn_reply(502, "Command not implemented")
      [] verb \in {<<"S","E","N","D">>, <<"S","O","M","L">>,
                   <<"S","A","M","L">>} ->
            Conn_reply(502, "Command not implemented")
      [] verb = <<"N","O","O","P">> -> Conn_reply(250, "OK")
      [] verb = <<"Q","U","I","T">> -> Conn_replyAndReturn(221, "Bye!")
      [] verb = <<"A","U","T","H">> -> Conn_AUTH(args)
      [] OTHER -> Conn_reply(500, "Command unrecognized")

\* Conn.serve before its loop
Conn_Greet ==
    /\ pc = "start"
    /\ write(220, "GoPistolet at your service")
    /\ pc' = "cmd"
    /\ UNCHANGED <<lib, conf, auth, username,
                   rx, eof, closed, line, data, from, to, msg, tls>>

\* one turn of the loop of Conn.serve
Conn_serve ==
    /\ pc = "cmd"
    /\ CanRead
    /\ line' = ReadString
    /\ rx' = AfterRead
    /\ IF ReadString = <<>>
       THEN UNCHANGED <<wire, closed, pc, from, to, msg, auth>>
       ELSE Conn_switch(parseLine(ReadString).verb,
                        parseLine(ReadString).args)
    /\ UNCHANGED <<lib, conf, username, eof, data, tls>>

\* case "MAIL" from the answer of the resolver on: from.HasReverseDns(conn)
\* is true or false as the DNS has it, and the sender of the line that was
\* read is refused or set
Conn_Lookup ==
    /\ pc = "lookup"
    /\ \E HasReverseDns \in BOOLEAN :
          IF ~HasReverseDns
          THEN Conn_reply(541, "Sender should reverse dns to your server")
          ELSE /\ from' = parseFROM(parseLine(line).args)
               /\ write(250, "OK")
               /\ pc' = "cmd"
               /\ UNCHANGED <<closed, to, msg, auth>>
    /\ UNCHANGED <<lib, conf, username, rx, eof, line, data, tls>>

\* one turn of the loop of case "DATA", and what follows the loop
Conn_DataLine ==
    /\ pc = "data"
    /\ CanRead
    /\ data' = ReadString
    /\ rx' = AfterRead
    /\ IF IsEndOfData(ReadString)
       THEN /\ reset
            /\ write(250, "OK")
            /\ pc' = "cmd"
       ELSE /\ msg' = msg \o ReadString
            /\ UNCHANGED <<wire, pc, from, to>>
    /\ UNCHANGED <<lib, conf, auth, username, eof, closed, line, tls>>

\* case "AUTH" from the read of the user name to the read of the password
Conn_AuthUser ==
    /\ pc = "authUser"
    /\ CanRead
    /\ rx' = AfterRead
    /\ IF ~Base64Valid(ReadString)
       THEN /\ Conn_replyAndReturn(500, "Not base64")
            /\ username' = <<>>
       ELSE /\ write(334, "UGFzc3dvcmQ6")
            /\ username' = DecodeString(ReadString)
            /\ pc' = "authPass"
            /\ UNCHANGED <<closed, from, to, msg, auth>>
    /\ UNCHANGED <<lib, conf, eof, line, data, tls>>

\* case "AUTH" from the read of the password to its end
Conn_AuthPass ==
    /\ pc = "authPass"
    /\ CanRead
    /\ rx' = AfterRead
    /\ IF ~Base64Valid(ReadString)
       THEN Conn_replyAndReturn(500, "Not base64")
       ELSE /\ auth' = TRUE
            /\ write(535, "Authentication failed")
            /\ pc' = "cmd"
            /\ UNCHANGED <<closed, from, to, msg>>
    /\ username' = <<>>
    /\ UNCHANGED <<lib, conf, eof, line, data, tls>>

-----------------------------------------------------------------------------
(* The client.                                                             *)

\* An interactive client works in lock step (the server offers no
\* PIPELINING): it reads the replies that have come, then writes one line
\* while the session waits in a read.
ClientSend ==
    /\ script = <<>>
    /\ pc \in {"cmd", "data", "authUser", "authPass"}
    /\ rx = <<>> /\ ~eof /\ ~closed
    /\ \E l \in IF pc = "data" THEN DataLines ELSE Lines :
          /\ (pc = "cmd" /\ l \in {L_RCPT, L_RCPTBAD}) => Len(to) < MaxRcpts
          /\ (pc = "data" /\ ~IsEndOfData(l)) => BodyLines(msg) < MaxBodyLines
          /\ rx' = <<l>>
    /\ wire' = <<>>
    /\ UNCHANGED <<lib, conf, auth, username,
                   eof, closed, pc, line, data, from, to, msg, tls>>

\* the client writes the start of a line, without a line feed, and closes
ClientSendLast ==
    /\ script = <<>>
    /\ pc \in {"cmd", "data", "authUser", "authPass"}
    /\ rx = <<>> /\ ~eof /\ ~closed
    /\ \E l \in Fragments :
          /\ (pc = "data" /\ ~IsEndOfData(l)) => BodyLines(msg) < MaxBodyLines
          /\ rx' = <<l>>
    /\ eof' = TRUE
    /\ wire' = <<>>
    /\ UNCHANGED <<lib, conf, auth, username,
                   closed, pc, line, data, from, to, msg, tls>>

\* what a client may write behind STARTTLS without waiting for the reply
Injected == {L_QUIT, L_MAIL}

\* the client writes STARTTLS and a further line in one piece, in
\* plaintext: both are in conn.br when serve has read the first.  inp
\* keeps the line that was written behind STARTTLS.
ClientPipeline ==
    /\ script = <<>>
    /\ pc = "cmd"
    /\ rx = <<>> /\ ~eof /\ ~closed
    /\ ~tls
    /\ inp = <<>>
    /\ \E l \in Injected :
          /\ rx' = <<L_STARTTLS, l>>
          /\ inp' = <<l>>
    /\ wire' = <<>>
    /\ UNCHANGED <<loc, ret, conf, auth, username,
                   eof, closed, pc, line, data, from, to, msg, tls>>

\* the lines that client writes one at a time, before and after STARTTLS
PipelineLines == {L_EHLO, L_MAIL, L_RSET, L_NOOP, L_STARTTLS, L_QUIT}

\* that client writes one line and waits for the reply, on the connection
\* as it is, in plaintext or under TLS
ClientWrite ==
    /\ script = <<>>
    /\ pc = "cmd"
    /\ rx = <<>> /\ ~eof /\ ~closed
    /\ \E l \in PipelineLines : rx' = <<l>>
    /\ wire' = <<>>
    /\ UNCHANGED <<lib, conf, auth, username,
                   eof, closed, pc, line, data, from, to, msg, tls>>

\* the client closes its end, or the transport fails
ClientClose ==
    /\ ~eof
    /\ eof' = TRUE
    /\ UNCHANGED <<lib, conf, auth, username,
                   rx, wire, closed, pc, line, data, from, to, msg, tls>>

-----------------------------------------------------------------------------
(* Specifications.                                                         *)

\* no function is called outside of the session
NoCall == inp = <<>> /\ loc = <<>> /\ ret = <<>>

\* Server.newConn, for each server NewMTAServer and NewMSAServer build
newConn ==
    /\ role \in {"MTA", "MSA"}
    /\ tlsConfig \in BOOLEAN
    /\ role = "MTA" => ~tlsConfig
    /\ wire = <<>>
    /\ closed = FALSE
    /\ pc = "start"
    /\ line = <<>>
    /\ data = <<>>
    /\ from = nil
    /\ to = <<>>
    /\ msg = <<>>
    /\ tls = FALSE
    /\ username = <<>>
    /\ auth = FALSE

\* a session with an interactive client
Init ==
    /\ newConn
    /\ NoCall
    /\ script = <<>>
    /\ rx = <<>>
    /\ eof = FALSE

Session_Next == Greet \/ ServeCmd \/ DataLine \/ AuthUser \/ AuthPass

Next ==
    Session_Next \/ Handshake \/ ClientSend \/ ClientSendLast \/ ClientClose

Spec == Init /\ [][Next]_vars

\* a session of a server with TLS whose client may write a line behind
\* STARTTLS without waiting
InitPipeline ==
    /\ Init
    /\ tlsConfig

NextPipeline ==
    Greet \/ ServeCmd \/ Handshake \/ ClientWrite \/ ClientPipeline
          \/ ClientClose

SpecPipeline == InitPipeline /\ [][NextPipeline]_vars

\* a session with a client that writes a script up front and then either
\* keeps the connection open or closes its end
InitScript ==
    /\ newConn
    /\ NoCall
    /\ script \in Scripts
    /\ rx = script
    /\ eof \in BOOLEAN

SpecScript == InitScript /\ [][Session_Next]_vars

\* Server.newConn of the inline Conn
Conn_newConn ==
    /\ role = "inline"
    /\ tlsConfig = FALSE
    /\ wire = <<>>
    /\ closed = FALSE
    /\ pc = "start"
    /\ line = <<>>
    /\ data = <<>>
    /\ from = nil
    /\ to = <<>>
    /\ msg = <<>>
    /\ tls = FALSE
    /\ username = <<>>
    /\ auth = FALSE

\* a session of the inline Conn with an interactive client
InitConn ==
    /\ Conn_newConn
    /\ NoCall
    /\ script = <<>>
    /\ rx = <<>>
    /\ eof = FALSE

Conn_Next ==
    Conn_Greet \/ Conn_serve \/ Conn_Lookup \/ Conn_DataLine \/ Conn_AuthUser
               \/ Conn_AuthPass

NextConn == Conn_Next \/ ClientSend \/ ClientSendLast \/ ClientClose

SpecConn == InitConn /\ [][NextConn]_vars

-----------------------------------------------------------------------------
(* Two sessions of one server.  Serve starts a goroutine for every          *)
(* connection it accepts; a goroutine runs conn.serve on a conn of its own  *)
(* and reads the Server only.  The session whose goroutine runs has its     *)
(* conn in the session variables, the other one waits in loc; inp names     *)
(* the goroutine that runs.  Each client has written its script up front.   *)

\* the scripts of the clients of two concurrent sessions: submissions, and
\* sessions that ask for TLS with a sender set
ServeScripts ==
    {Pick(Session, keep) :
        keep \in {1..10, {1, 5, 6, 7, 8, 9, 10}, {1, 5, 6, 7}, {2, 3, 4, 5}}}
      \cup {<<L_EHLO, L_MAIL, L_STARTTLS, L_EHLO>>,
            <<L_EHLO, L_MAIL, L_STARTTLS, L_RCPT>>}

\* the conn of the goroutine that runs, with its connection
Parked ==
    [script   |-> script,
     rx       |-> rx,
     eof      |-> eof,
     wire     |-> wire,
     closed   |-> closed,
     pc       |-> pc,
     line     |-> line,
     data     |-> data,
     from     |-> from,
     to       |-> to,
     msg      |-> msg,
     tls      |-> tls,
     username |-> username,
     auth     |-> auth]

\* the scheduler takes the goroutine that runs off the processor and puts
\* the other one on
Switch ==
    /\ loc # <<>>
    /\ loc' = <<Parked>>
    /\ inp' = <<3 - inp[1]>>
    /\ script' = loc[1].script
    /\ rx' = loc[1].rx
    /\ eof' = loc[1].eof
    /\ wire' = loc[1].wire
    /\ closed' = loc[1].closed
    /\ pc' = loc[1].pc
    /\ line' = loc[1].line
    /\ data' = loc[1].data
    /\ from' = loc[1].from
    /\ to' = loc[1].to
    /\ msg' = loc[1].msg
    /\ tls' = loc[1].tls
    /\ username' = loc[1].username
    /\ auth' = loc[1].auth
    /\ UNCHANGED <<role, tlsConfig, ret>>

\* Serve has accepted two connections and started conn.serve on a new conn
\* for each
InitServe ==
    /\ newConn
    /\ script \in ServeScripts
    /\ rx = script
    /\ eof \in BOOLEAN
    /\ inp = <<1>>
    /\ ret = <<>>
    /\ \E s \in ServeScripts, e \in BOOLEAN :
          loc = <<[script   |-> s,
                   rx       |-> s,
                   eof      |-> e,
                   wire     |-> <<>>,
                   closed   |-> FALSE,
                   pc       |-> "start",
                   line     |-> <<>>,
                   data     |-> <<>>,
                   from     |-> nil,
                   to       |-> <<>>,
                   msg      |-> <<>>,
                   tls      |-> FALSE,
                   username |-> <<>>,
                   auth     |-> FALSE]>>

NextServe == Session_Next \/ Handshake \/ Switch

SpecServe == InitServe /\ [][NextServe]_vars

-----------------------------------------------------------------------------
(* Functions of the packages that are called outside of a session.  A byte  *)
(* stream is a record: the bytes it still holds, and the error its reads    *)
(* return once they are used up ("EOF", or an error of the transport).      *)

\* the session variables where no session runs
NoSession ==
    /\ role = "none"
    /\ tlsConfig = FALSE
    /\ script = <<>>
    /\ rx = <<>>
    /\ eof = FALSE
    /\ wire = <<>>
    /\ closed = FALSE
    /\ pc = "none"
    /\ line = <<>>
    /\ data = <<>>
    /\ from = nil
    /\ to = <<>>
    /\ msg = <<>>
    /\ tls = FALSE
    /\ username = <<>>
    /\ auth = FALSE

\* all sequences over S of length at most n
SeqsUpTo(S, n) == UNION {[1..k -> S] : k \in 0..n}

\* the bytes of the streams
StreamBytes == {"a", CR, LF}

\* the errors a read returns once the bytes are used up
StreamEnds == {"EOF", "ErrClosed"}

\* len(buffer) in ReadUntill
BufLen == 64

\* the end of UntillReader.Read, after its loop
UntillReader_ReadEnd(u, r, p, plen) ==
    [u |-> u, r |-> r, p |-> p,
     err |-> IF u.N = 0 /\ u.delimsRead # Len(u.Delims) THEN "ErrLtl"
             ELSE IF Len(p) = plen /\ u.delimsRead # Len(u.Delims) THEN "nil"
             ELSE IF u.delimsRead = Len(u.Delims) THEN "EOF"
             ELSE "nil"]

\* the loop of UntillReader.Read with p[0:n] = p read so far.  lr was made
\* with lr.N = u.N and both lose one for each byte, so that lr.N = u.N here.
RECURSIVE UntillReader_ReadLoop(_, _, _, _)
UntillReader_ReadLoop(u, r, p, plen) ==
    IF ~(u.N > 0 /\ u.delimsRead < Len(u.Delims) /\ Len(p) < plen)
    THEN UntillReader_ReadEnd(u, r, p, plen)
    ELSE IF r.bytes # <<>>
    THEN LET b == Head(r.bytes)
             d == IF u.Delims[u.delimsRead + 1] = b
                  THEN u.delimsRead + 1 ELSE 0
             u2 == [u EXCEPT !.delimsRead = d, !.N = u.N - 1]
             r2 == [r EXCEPT !.bytes = Tail(r.bytes)]
         IN  IF d = Len(u.Delims)
             THEN UntillReader_ReadEnd(u2, r2, Append(p, b), plen)
             ELSE UntillReader_ReadLoop(u2, r2, Append(p, b), plen)
    ELSE [u |-> u, r |-> r, p |-> p,
          err |-> IF r.end = "EOF"
                  THEN (IF u.N = 0 THEN "ErrLtl" ELSE "ErrNoDelims")
                  ELSE r.end]

\* UntillReader.Read that starts every call with no delimiter byte matched
UntillReader_Read_ForgetMatch(u, r, plen) ==
    IF plen = 0 THEN [u |-> u, r |-> r, p |-> <<>>, err |-> "nil"]
    ELSE UntillReader_ReadLoop([u EXCEPT !.delimsRead = 0], r, <<>>, plen)

\* UntillReader.Read(p) with len(p) = plen: the reader and the stream after
\* it, the bytes put in p, and the error
UntillReader_Read(u, r, plen) ==
    IF plen = 0 THEN [u |-> u, r |-> r, p |-> <<>>, err |-> "nil"]
    ELSE UntillReader_ReadLoop(u, r, <<>>, plen)

\* ReadUntill that lets its reader go one byte beyond maxBytes
ReadUntill_Start_OneMore(delims, maxBytes, r) ==
    [ru |-> [Delims |-> delims, N |-> maxBytes + 1, delimsRead |-> 0],
     r |-> r,
     result |-> <<>>]

\* ReadUntill before its loop
ReadUntill_Start(delims, maxBytes, r) ==
    [ru |-> [Delims |-> delims, N |-> maxBytes, delimsRead |-> 0],
     r |-> r,
     result |-> <<>>]

\* one turn of the loop of ReadUntill
ReadUntill ==
    /\ ret = <<>>
    /\ LET x == UntillReader_Read(loc.ru, loc.r, BufLen)
           result == loc.result \o x.p
       IN  /\ loc' = [ru |-> x.u, r |-> x.r, result |-> result]
           /\ ret' = IF x.err = "nil" THEN <<>>
                     ELSE IF x.err = "EOF"
                     THEN [result |-> result, err |-> "nil"]
                     ELSE [result |-> result, err |-> x.err]
    /\ UNCHANGED <<session, inp>>

\* the calls of ReadUntill: a delimiter, a limit, and a stream of some
\* bytes, or of a few bytes behind a run of "a" that fills the buffer
InitReadUntill ==
    /\ NoSession
    /\ \E delims \in {<<CR, LF>>, <<LF>>}, pre \in {0, BufLen},
          bs \in SeqsUpTo(StreamBytes, MaxStream),
          over \in 0..(MaxStream + 1), e \in StreamEnds :
          /\ pre = BufLen => Len(bs) <= 3
          /\ inp = [delims |-> delims,
                    maxBytes |-> pre + over,
                    r |-> [bytes |-> [i \in 1..pre |-> "a"] \o bs,
                           end |-> e]]
          /\ loc = ReadUntill_Start(inp.delims, inp.maxBytes, inp.r)
    /\ ret = <<>>

SpecReadUntill == InitReadUntill /\ [][ReadUntill]_vars

\* the buffer of the i-th call of Read, the sizes taken in turn
SizeOf(sizes, i) == sizes[((i - 1) % Len(sizes)) + 1]

\* a caller reads a line through an UntillReader, one Read after the other
\* with buffers of the sizes inp.sizes, until Read returns an error
UntillReader_ReadNext ==
    /\ ret = <<>>
    /\ LET x == UntillReader_Read(loc.ru, loc.r, SizeOf(inp.sizes, loc.calls))
           result == loc.result \o x.p
       IN  /\ loc' = [ru |-> x.u, r |-> x.r, result |-> result,
                      calls |-> loc.calls + 1]
           /\ ret' = IF x.err = "nil" THEN <<>>
                     ELSE [result |-> result, err |-> x.err]
    /\ UNCHANGED <<session, inp>>

\* the sizes of the buffers of a caller, call after call
BufferSizes == {<<1>>, <<2>>, <<3>>, <<1, 2>>, <<2, 1>>, <<3, 1>>, <<1, 3>>}

\* the calls of Read: short streams read with small buffers, and streams
\* behind a run of "a" that leaves one byte of room in a buffer of BufLen
InitReadSizes ==
    /\ NoSession
    /\ \E delims \in {<<CR, LF>>, <<LF>>}, e \in StreamEnds,
          bs \in SeqsUpTo(StreamBytes, MaxStream) :
          \/ \E sizes \in BufferSizes, maxBytes \in {2, 3, MaxStream + 1} :
                inp = [delims |-> delims, maxBytes |-> maxBytes,
                       sizes |-> sizes, r |-> [bytes |-> bs, end |-> e]]
          \/ /\ Len(bs) <= 3
             /\ \E over \in {1, 2, 4} :
                   inp = [delims |-> delims, maxBytes |-> BufLen - 1 + over,
                          sizes |-> <<BufLen>>,
                          r |-> [bytes |-> [i \in 1..(BufLen - 1) |-> "a"]
                                             \o bs,
                                 end |-> e]]
    /\ loc = [ru |-> [Delims |-> inp.delims, N |-> inp.maxBytes,
                      delimsRead |-> 0],
              r |-> inp.r, result |-> <<>>, calls |-> 1]
    /\ ret = <<>>

SpecReadSizes == InitReadSizes /\ [][UntillReader_ReadNext]_vars

\* dotReader.Read of net/textproto, which DataReader.Read calls: its loop,
\* in state `state` with b[0:n] = p, and its end.  The states are named as
\* in textproto: BeginLine, Dot, DotCR, CR, Data, EOF.
RECURSIVE DotReader_Read(_, _, _, _)
DotReader_Read(r, state, p, plen) ==
    IF ~(Len(p) < plen /\ state # "EOF")
    THEN [r |-> r, p |-> p, err |-> IF state = "EOF" THEN "EOF" ELSE "nil"]
    ELSE IF r.bytes = <<>>
    THEN [r |-> r, p |-> p,
          err |-> IF r.end = "EOF" THEN "ErrUnexpectedEOF" ELSE r.end]
    ELSE LET c == Head(r.bytes)
             read == [r EXCEPT !.bytes = Tail(r.bytes)]
         IN  CASE state = "BeginLine" ->
                    IF c = "." THEN DotReader_Read(read, "Dot", p, plen)
                    ELSE IF c = CR THEN DotReader_Read(read, "CR", p, plen)
                    ELSE DotReader_Read(read, "Data", Append(p, c), plen)
               [] state = "Dot" ->
                    IF c = CR THEN DotReader_Read(read, "DotCR", p, plen)
                    ELSE IF c = LF THEN DotReader_Read(read, "EOF", p, plen)
                    ELSE DotReader_Read(read, "Data", Append(p, c), plen)
               [] state = "DotCR" ->
                    IF c = LF THEN DotReader_Read(read, "EOF", p, plen)
                    ELSE DotReader_Read(r, "Data", Append(p, CR), plen)
               [] state = "CR" ->
                    IF c = LF
                    THEN DotReader_Read(read, "BeginLine", Append(p, c), plen)
                    ELSE DotReader_Read(r, "Data", Append(p, CR), plen)
               [] state = "Data" ->
                    IF c = CR THEN DotReader_Read(read, "CR", p, plen)
                    ELSE IF c = LF
                    THEN DotReader_Read(read, "BeginLine", Append(p, c), plen)
                    ELSE DotReader_Read(read, "Data", Append(p, c), plen)

\* DataReader.Read(p) with len(p) = plen: a new DotReader for each call
DataReader_Read(r, plen) == DotReader_Read(r, "BeginLine", <<>>, plen)

\* a caller reads a body through a DataReader, call after call of Read,
\* until Read returns an error
DataReader_ReadAll ==
    /\ ret = <<>>
    /\ LET x == DataReader_Read(loc.r, inp.plen)
           body == loc.body \o x.p
       IN  /\ loc' = [r |-> x.r, body |-> body, late |-> <<>>]
           /\ ret' = IF x.err = "nil" THEN <<>>
                     ELSE [body |-> body, err |-> x.err]
    /\ UNCHANGED <<session, inp>>

\* the caller calls Read once more on a DataReader that has returned the
\* end of the body; late is what that call returns
DataReader_ReadAgain ==
    /\ ret # <<>>
    /\ ret.err = "EOF"
    /\ LET x == DataReader_Read(loc.r, inp.plen)
       IN  loc' = [r |-> x.r, body |-> loc.body, late |-> <<x.p, x.err>>]
    /\ UNCHANGED <<session, inp, ret>>

\* the bytes of a sequence of lines
RECURSIVE Concat(_)
Concat(ls) == IF ls = <<>> THEN <<>> ELSE Head(ls) \o Concat(Tail(ls))

\* body lines as they are sent after 354
WireLines ==
    {L_BODY, L_BLANK, L_STUFFED, L_DOTBAR, <<".",".","\r","\n">>}

\* the calls of DataReader.Read: the stream holds a dot-stuffed body and its
\* terminating line, and a command behind it or not; or it holds any bytes;
\* the caller's buffer has room for one byte or for BufLen
InitDataReader ==
    /\ NoSession
    /\ \E plen \in {1, BufLen}, e \in StreamEnds :
          \/ \E ls \in SeqsUpTo(WireLines, MaxBodyLines),
                next \in {<<>>, L_QUIT} :
                inp = [plen |-> plen, stuffed |-> TRUE, lines |-> ls,
                       r |-> [bytes |-> Concat(ls) \o L_DOT \o next,
                              end |-> e]]
          \/ \E bs \in SeqsUpTo(StreamBytes \cup {"."}, MaxStream) :
                inp = [plen |-> plen, stuffed |-> FALSE, lines |-> <<>>,
                       r |-> [bytes |-> bs, end |-> e]]
    /\ loc = [r |-> inp.r, body |-> <<>>, late |-> <<>>]
    /\ ret = <<>>

NextDataReader == DataReader_ReadAll \/ DataReader_ReadAgain

SpecDataReader == InitDataReader /\ [][NextDataReader]_vars

-----------------------------------------------------------------------------
(* Parsing the argument of MAIL and RCPT: a line goes through parseLine and  *)
(* its arguments through parseFROM or parseTO, as serve and the tests of     *)
(* the parser do it.                                                       *)

\* the longest local-part and the longest domain that are parsed
MaxPart == 2

\* the characters of these local-parts and domains
PartChars == {"a", "."}

\* the line  MAIL FROM:<local@domain>  or  RCPT TO:<local@domain>, with a
\* space in front of the '<' or not, ended by <CR><LF> or not
PathLine(i) ==
    (IF i.verb = "MAIL"
     THEN <<"M","A","I","L", SP, "F","R","O","M",":">>
     ELSE <<"R","C","P","T", SP, "T","O",":">>)
        \o (IF i.space THEN <<SP>> ELSE <<>>)
        \o <<"<">> \o i.local \o <<"@">> \o i.domain \o <<">">>
        \o (IF i.crlf THEN <<CR, LF>> ELSE <<>>)

\* _, args := parseLine(line); email, err := parseFROM(args), or parseTO
ParsePath ==
    /\ ret = <<>>
    /\ LET args == parseLine(PathLine(inp)).args
           email == IF inp.verb = "MAIL" THEN parseFROM(args)
                                         ELSE parseTO(args)
       IN  ret' = [email |-> email,
                   err |-> IF email = nil THEN "Invalid email" ELSE "nil"]
    /\ UNCHANGED <<session, inp, loc>>

InitParse ==
    /\ NoSession
    /\ \E v \in {"MAIL", "RCPT"}, sp \in BOOLEAN, nl \in BOOLEAN,
          l \in SeqsUpTo(PartChars, MaxPart) \ {<<>>},
          d \in SeqsUpTo(PartChars, MaxPart) \ {<<>>} :
          inp = [verb |-> v, space |-> sp, crlf |-> nl,
                 local |-> l, domain |-> d]
    /\ loc = <<>>
    /\ ret = <<>>

SpecParse == InitParse /\ [][ParsePath]_vars

-----------------------------------------------------------------------------
(* MailAddress.Validate, called on addresses whose parts have lengths at    *)
(* and around the limits it checks.                                        *)

\* how far from a limit the lengths of the parts go
Slack == 2

\* a string of n octets
Octets(n) == [i \in 1..n |-> "x"]

\* the lengths of the local-parts: short ones, and those around 64
LocalLens == (1..Slack) \cup ((64 - Slack)..(64 + Slack))

\* the lengths of the domains: short ones, those around 253, and those that
\* bring the two parts to around 254 with a local-part of 64
DomainLens ==
    (1..Slack) \cup ((253 - Slack)..(253 + Slack))
               \cup ((190 - Slack)..(190 + Slack))

\* MailAddress.Validate that refuses two parts of 254 octets together
Validate_At254(m) ==
    IF Len(m.Local) > 64
    THEN [valid |-> FALSE, msg |-> "Local too long"]
    ELSE IF Len(m.Domain) > 253
    THEN [valid |-> FALSE, msg |-> "Domain too long"]
    ELSE IF Len(m.Domain) + Len(m.Local) >= 254
    THEN [valid |-> FALSE, msg |-> "MailAddress too long"]
    ELSE [valid |-> TRUE, msg |-> ""]

\* MailAddress.Validate
Validate(m) ==
    IF Len(m.Local) > 64
    THEN [valid |-> FALSE, msg |-> "Local too long"]
    ELSE IF Len(m.Domain) > 253
    THEN [valid |-> FALSE, msg |-> "Domain too long"]
    ELSE IF Len(m.Domain) + Len(m.Local) > 254
    THEN [valid |-> FALSE, msg |-> "MailAddress too long"]
    ELSE [valid |-> TRUE, msg |-> ""]

\* valid, msg := m.Validate()
CallValidate ==
    /\ ret = <<>>
    /\ ret' = Validate(inp)
    /\ UNCHANGED <<session, inp, loc>>

InitValidate ==
    /\ NoSession
    /\ \E l \in LocalLens, d \in DomainLens :
          inp = [Local |-> Octets(l), Domain |-> Octets(d)]
    /\ loc = <<>>
    /\ ret = <<>>

SpecValidate == InitValidate /\ [][CallValidate]_vars

-----------------------------------------------------------------------------
(* A UserDB and the calls of Add and Get on it.  The database is in loc:    *)
(* made tells whether the map db.Users has been made, m is the map.  inp    *)
(* is the last call and ret what it returned.                              *)

\* the names and the passwords of the users that are added
UserNames == {"Mathias", "Bob", "Eve"}
Passwords == {"p", "q"}

\* db.UserExists(name), on the map m
UserDB_UserExists(m, name) == name \in DOMAIN m

\* db.Users[user.Name] = user
MapStore(m, user) ==
    [n \in DOMAIN m \cup {user.Name} |->
        IF n = user.Name THEN user ELSE m[n]]

\* UserDB.Add that does not look whether the user exists
UserDB_Add_Overwrite ==
    /\ loc # <<>>
    /\ \E n \in UserNames, pw \in Passwords :
          LET user == [Name |-> n, Password |-> pw]
          IN  /\ inp' = <<"Add", user>>
              /\ loc' = <<TRUE, MapStore(loc[2], user)>>
              /\ ret' = <<"nil">>
    /\ UNCHANGED session

\* UserDB.Add
UserDB_Add ==
    /\ loc # <<>>
    /\ \E n \in UserNames, pw \in Passwords :
          LET user == [Name |-> n, Password |-> pw]
          IN  /\ inp' = <<"Add", user>>
              /\ IF UserDB_UserExists(loc[2], user.Name)
                 THEN /\ ret' = <<"User already exists">>
                      /\ loc' = <<TRUE, loc[2]>>
                 ELSE /\ loc' = <<TRUE, MapStore(loc[2], user)>>
                      /\ ret' = <<"nil">>
    /\ UNCHANGED session

\* UserDB.Get
UserDB_Get ==
    /\ loc # <<>>
    /\ \E name \in UserNames :
          /\ inp' = <<"Get", name>>
          /\ ret' = IF UserDB_UserExists(loc[2], name)
                    THEN <<"nil", loc[2][name]>>
                    ELSE <<"User not found">>
    /\ UNCHANGED <<session, loc>>

\* db := UserDB{}
InitUserDB ==
    /\ NoSession
    /\ inp = <<>>
    /\ loc = <<FALSE, <<>>>>
    /\ ret = <<>>

NextUserDB == UserDB_Add \/ UserDB_Get

SpecUserDB == InitUserDB /\ [][NextUserDB]_vars

-----------------------------------------------------------------------------
(* The commands of the protocol layer and their String() form, parsed back  *)
(* by parseLine.  A command is a record: its type and the fields of it.     *)

\* the domains, parameters and parts of addresses the commands carry
CmdParts == SeqsUpTo(PartChars, MaxPart) \ {<<>>}

\* the commands, a record for every command type with the fields of the
\* struct: InvalidCmd, a known verb with what was wrong behind it,
\* UnknownCmd, a line of one word, and the thirteen commands proper
Cmds ==
    {[type |-> t] :
        t \in {"QuitCmd", "DataCmd", "RsetCmd", "NoopCmd", "SendCmd",
               "SomlCmd", "SamlCmd"}}
      \cup {[type |-> t, Domain |-> d] :
               t \in {"HeloCmd", "EhloCmd"}, d \in CmdParts}
      \cup {[type |-> "VrfyCmd", Param |-> d] : d \in CmdParts}
      \cup {[type |-> "ExpnCmd", ListName |-> d] : d \in CmdParts}
      \cup {[type |-> "MailCmd", From |-> [Local |-> l, Domain |-> d]] :
               l \in CmdParts, d \in CmdParts}
      \cup {[type |-> "RcptCmd", To |-> [Local |-> l, Domain |-> d]] :
               l \in CmdParts, d \in CmdParts}
      \cup {[type |-> "UnknownCmd", Cmd |-> w, Line |-> w \o <<CR, LF>>] :
               w \in {<<"X","F","O","O">>, <<"H","E","L","P">>}}
      \cup {[type |-> "InvalidCmd", Cmd |-> w, Info |-> i] :
               w \in {<<"M","A","I","L">>, <<"R","C","P","T">>},
               i \in {<<>>, <<"x">>, <<"n","o",SP,"x">>}}

\* c.String(): "%s %s" of Cmd and Info for an InvalidCmd, "%s" of Cmd for an
\* UnknownCmd, "" for every other command
Cmd_String(c) ==
    IF c.type = "InvalidCmd" THEN c.Cmd \o <<SP>> \o c.Info
    ELSE IF c.type = "UnknownCmd" THEN c.Cmd
    ELSE <<>>

\* verb, args := parseLine(c.String())
ParseString ==
    /\ ret = <<>>
    /\ ret' = <<parseLine(Cmd_String(inp))>>
    /\ UNCHANGED <<session, inp, loc>>

InitCmd ==
    /\ NoSession
    /\ inp \in Cmds
    /\ loc = <<>>
    /\ ret = <<>>

SpecCmd == InitCmd /\ [][ParseString]_vars

-----------------------------------------------------------------------------
(* MtaProtocol.SkipTillNewline.  p.br is a bufio.Reader on p.lr, an         *)
(* io.LimitedReader on the connection.  The protocol is a record: buf, the  *)
(* bytes p.br holds unread; N, what p.lr still lets through; r, the stream  *)
(* of the connection; chunk, the most bytes one Read of the connection      *)
(* delivers.                                                               *)

\* LIMIT of SkipTillNewline
LIMIT == 1024

\* the size of the buffer of bufio.NewReader
BufioSize == 4096

\* p.br.ReadBytes('\n'), the bytes it returns left out: the protocol after
\* the call and the error.  It returns at the first line feed in the buffer;
\* without one it reads from p.lr into the room left in the buffer, and
\* returns all it holds with the error when that read fails.
RECURSIVE ReadBytes(_)
ReadBytes(p) ==
    LET k == Index(p.buf, LF)
        room == Min({BufioSize - Len(p.buf), p.N, p.chunk})
        n == Min({room, Len(p.r.bytes)})
    IN  IF k > 0
        THEN [p |-> [p EXCEPT !.buf = SubSeq(p.buf, k + 1, Len(p.buf))],
              err |-> "nil"]
        ELSE IF p.N <= 0
        THEN [p |-> [p EXCEPT !.buf = <<>>], err |-> "EOF"]
        ELSE IF p.r.bytes = <<>>
        THEN [p |-> [p EXCEPT !.buf = <<>>], err |-> p.r.end]
        ELSE ReadBytes([p EXCEPT
                 !.buf = p.buf \o SubSeq(p.r.bytes, 1, n),
                 !.N = p.N - n,
                 !.r.bytes = SubSeq(p.r.bytes, n + 1, Len(p.r.bytes))])

\* the loop of SkipTillNewline that returns every io.EOF
SkipLoop_EveryEOF(p) ==
    ReadBytes([p EXCEPT !.N = LIMIT])

\* the loop of SkipTillNewline
RECURSIVE SkipLoop(_)
SkipLoop(p) ==
    LET x == ReadBytes([p EXCEPT !.N = LIMIT])
    IN  IF x.err = "EOF" /\ x.p.N <= 0 THEN SkipLoop(x.p) ELSE x

\* err := p.SkipTillNewline()
SkipTillNewline ==
    /\ ret = <<>>
    /\ LET x == SkipLoop(loc)
       IN  /\ loc' = x.p
           /\ ret' = <<x.err>>
    /\ UNCHANGED <<session, inp>>

\* p.parser.ParseCommand(p.br), as far as it reads: it takes one line from
\* p.br, the bytes up to and with the first line feed, and gives the command
\* of that line, here the line itself, or the error the read ends with and
\* no command.  The bytes a failed read took from the stream are gone.
RECURSIVE ParseCommand(_, _)
ParseCommand(p, got) ==
    LET k == Index(p.buf, LF)
        room == Min({BufioSize - Len(p.buf), p.N, p.chunk})
        n == Min({room, Len(p.r.bytes)})
    IN  IF k > 0
        THEN [p |-> [p EXCEPT !.buf = SubSeq(p.buf, k + 1, Len(p.buf))],
              cmd |-> got \o SubSeq(p.buf, 1, k), err |-> "nil"]
        ELSE IF p.N <= 0
        THEN [p |-> [p EXCEPT !.buf = <<>>], cmd |-> <<>>, err |-> "EOF"]
        ELSE IF p.r.bytes = <<>>
        THEN [p |-> [p EXCEPT !.buf = <<>>], cmd |-> <<>>, err |-> p.r.end]
        ELSE ParseCommand([p EXCEPT
                 !.buf = p.buf \o SubSeq(p.r.bytes, 1, n),
                 !.N = p.N - n,
                 !.r.bytes = SubSeq(p.r.bytes, n + 1, Len(p.r.bytes))], got)

\* cmd, err := p.GetCmd(): a command is read with p.lr.N at 512.  Where the
\* read ends with io.EOF and p.lr.N at 0 the line was too long: the rest of
\* it is skipped, and GetCmd returns the error of the skipping or ErrLtl.
\* A nil *Cmd is the empty tuple.
GetCmd ==
    /\ ret = <<>>
    /\ LET x == ParseCommand([loc EXCEPT !.N = MaxCmdLine], <<>>)
           skip == SkipLoop(x.p)
       IN  IF x.err = "nil"
           THEN loc' = x.p /\ ret' = <<x.cmd, "nil">>
           ELSE IF x.err = "EOF" /\ x.p.N = 0
           THEN /\ loc' = skip.p
                /\ ret' = <<<<>>, IF skip.err # "nil" THEN skip.err
                                  ELSE "ErrLtl">>
           ELSE loc' = x.p /\ ret' = <<<<>>, x.err>>
    /\ UNCHANGED <<session, inp>>

\* n bytes that are no line feed
Fill(n) == [i \in 1..n |-> "x"]

\* the streams SkipTillNewline and GetCmd are called on: short ones of any
\* bytes, read byte by byte or at once, and lines of about the 512 bytes of
\* a command and of about one and two LIMITs, with a line feed at their end
\* or none and a command behind it or none; p.br may hold bytes already
InitSkip ==
    /\ NoSession
    /\ \E e \in StreamEnds, held \in SeqsUpTo({"a", LF}, 1) :
          \/ \E bs \in SeqsUpTo({"a", LF}, MaxStream), c \in {1, BufioSize} :
                inp = [buf |-> held, N |-> 0, chunk |-> c,
                       r |-> [bytes |-> bs, end |-> e]]
          \/ \E n \in {MaxCmdLine - 2, MaxCmdLine - 1, MaxCmdLine,
                        LIMIT - 1, LIMIT, LIMIT + 1, 2 * LIMIT, 2 * LIMIT + 1},
                nl \in {<<>>, <<LF>>}, next \in {<<>>, <<"a", LF>>},
                c \in {LIMIT - 24, BufioSize} :
                inp = [buf |-> held, N |-> 0, chunk |-> c,
                       r |-> [bytes |-> Fill(n) \o nl \o next, end |-> e]]
    /\ loc = inp
    /\ ret = <<>>

NextSkip == SkipTillNewline \/ GetCmd

SpecSkip == InitSkip /\ [][NextSkip]_vars

-----------------------------------------------------------------------------
(* What the properties below speak of.                                     *)

V_MAIL == <<"M","A","I","L">>
V_RCPT == <<"R","C","P","T">>
V_DATA == <<"D","A","T","A">>
V_RSET == <<"R","S","E","T">>
V_EHLO == <<"E","H","L","O">>
V_QUIT == <<"Q","U","I","T">>
V_AUTH == <<"A","U","T","H">>
V_STARTTLS == <<"S","T","A","R","T","T","L","S">>

\* this step is serve reading a command line with verb v and handling it
Handles(v) ==
    /\ pc = "cmd"
    /\ rx # <<>>
    /\ rx' = Tail(rx)
    /\ parseLine(Head(rx)).verb = v

\* this step writes exactly the reply "code str"
Answers(code, str) == wire' = Append(wire, Reply(code, " ", str))

\* the last reply line on the wire is "code str"
LastReplyIs(code, str) ==
    wire # <<>> /\ wire[Len(wire)] = Reply(code, " ", str)

\* serve has handled a line with verb v and waits for the next one
JustHandled(v) == pc = "cmd" /\ line # <<>> /\ parseLine(line).verb = v

EnvelopeEmpty == from = nil /\ to = <<>> /\ msg = <<>>

-----------------------------------------------------------------------------
(* C1: a step that writes the 354 reply to DATA starts in a state where     *)
(* from is set and to holds at least one address.                          *)
C1_DataAcceptedOnlyWithEnvelope ==
    [][(/\ Len(wire') = Len(wire) + 1
        /\ wire'[Len(wire')].code = 354)
          => (from # nil /\ Len(to) >= 1)]_vars

\* a session that has just accepted DATA
C1_Witness ==
    /\ pc = "data"
    /\ LastReplyIs(354, "Accepting mail input")
    /\ from # nil
    /\ Len(to) >= 1

(* C2: right after the 250 that ends a DATA phase, and right after RSET or  *)
(* EHLO, from is unset, to is empty and msg is empty.                      *)
C2_EnvelopeEmptyAfterReset ==
    (\/ JustHandled(V_RSET)
     \/ JustHandled(V_EHLO)
     \/ JustHandled(V_DATA) /\ LastReplyIs(250, "OK"))
        => EnvelopeEmpty

\* the 250 that ends a DATA phase has just been written
C2_Witness ==
    /\ JustHandled(V_DATA)
    /\ IsEndOfData(data)
    /\ wire = <<Reply(250, " ", "OK")>>
    /\ EnvelopeEmpty

(* C3: in every state, to is non-empty only if from is set.                *)
C3_RecipientsOnlyWithSender == to # <<>> => from # nil

\* two recipients accepted after a sender
C3_Witness == Len(to) = 2 /\ from # nil

(* C4: on an MTA, EHLO, MAIL FROM:<a@b.example>, RCPT TO:<c@d.example>,     *)
(* DATA, one body line, '.', QUIT are answered, in order, by 220, the 250   *)
(* of EHLO without capabilities, 250 OK, 250 OK, 354, 250 OK, 221 Bye!.     *)
HappyPath == <<L_EHLO, L_MAIL, L_RCPT, L_DATA, L_BODY, L_DOT, L_QUIT>>

HappyReplies ==
    <<Reply(220, " ", "mx.example GoPistolet ESMTP"),
      Reply(250, " ", Hostname),
      Reply(250, " ", "OK"),
      Reply(250, " ", "OK"),
      Reply(354, " ", "Accepting mail input"),
      Reply(250, " ", "OK"),
      Reply(221, " ", "Bye!")>>

C4_HappyPathMTA ==
    (/\ role = "MTA"
     /\ script = HappyPath
     /\ rx = <<>>
     /\ line = L_QUIT)
        => wire = HappyReplies

(* C5: RCPT while from is unset, DATA while from is unset and DATA while    *)
(* from is set and to is empty are each answered by 503 with their own      *)
(* diagnostic; the session stays where it was and from, to, msg and tls     *)
(* are unchanged.                                                          *)
C5_SequencingErrors ==
    [][/\ (Handles(V_RCPT) /\ from = nil)
            => /\ Answers(503, "Need MAIL before RCPT")
               /\ pc' = "cmd"
               /\ UNCHANGED <<from, to, msg, tls>>
       /\ (Handles(V_DATA) /\ from = nil)
            => /\ Answers(503, "Need MAIL before DATA")
               /\ pc' = "cmd"
               /\ UNCHANGED <<from, to, msg, tls>>
       /\ (Handles(V_DATA) /\ from # nil /\ to = <<>>)
            => /\ Answers(503, "Need RCPT before DATA")
               /\ pc' = "cmd"
               /\ UNCHANGED <<from, to, msg, tls>>]_vars

\* DATA refused for want of a recipient, the sender still set
C5_Witness ==
    /\ JustHandled(V_DATA)
    /\ from # nil
    /\ to = <<>>
    /\ wire = <<Reply(503, " ", "Need RCPT before DATA")>>

(* C6: for both roles, MAIL while a sender is set is answered 503 "Sender   *)
(* already specified" and leaves from and to unchanged; MAIL with a         *)
(* well-formed path while no sender is set sets from to that address and    *)
(* is answered 250 OK.                                                     *)
C6_MailSetsSenderOnce ==
    [][/\ (Handles(V_MAIL) /\ from # nil)
            => /\ Answers(503, "Sender already specified")
               /\ UNCHANGED <<from, to>>
       /\ (Handles(V_MAIL) /\ from = nil
              /\ parseFROM(parseLine(Head(rx)).args) # nil)
            => /\ Answers(250, "OK")
               /\ from' = parseFROM(parseLine(Head(rx)).args)]_vars

(* C7: after QUIT the session is closed for good: the loop of serve has     *)
(* stopped, so that no line is read and no reply written any more.         *)
C7_QuitStopsServe == closed => pc = "done"

(* C8: a session that waits for a command line or a body line on a stream   *)
(* that has ended does nothing but terminate.                              *)
C8_EndOfStreamStopsServe ==
    [][(pc \in {"cmd", "data"} /\ rx = <<>> /\ eof) => pc' = "done"]_vars

(* C9: on an MSA the EHLO reply lists STARTTLS exactly when TLS is          *)
(* configured and not yet active, and AUTH LOGIN exactly when TLS is        *)
(* active or not configured.                                               *)
C9_Capabilities ==
    (role = "MSA" /\ JustHandled(V_EHLO) /\ wire # <<>>)
        => LET caps == {wire[i].text : i \in 2..Len(wire)}
           IN  /\ "STARTTLS" \in caps <=> (tlsConfig /\ ~tls)
               /\ "AUTH LOGIN" \in caps <=> (tls \/ ~tlsConfig)

\* the states in which the role does not offer the extension verb v
NotOffered(v) ==
    \/ role = "MTA"
    \/ v = V_AUTH /\ tlsConfig /\ ~tls
    \/ v = V_STARTTLS /\ (tls \/ ~tlsConfig)

(* C10 as claimed: STARTTLS and AUTH are answered with 500 in every state   *)
(* in which the role does not offer them.                                  *)
C10_NotOfferedIs500 ==
    [][\A v \in {V_AUTH, V_STARTTLS} :
          (Handles(v) /\ NotOffered(v))
            => (Len(wire') = Len(wire) + 1 /\ wire'[Len(wire')].code = 500)
      ]_vars

(* C10 as amended: STARTTLS and AUTH received in a state in which the role  *)
(* does not offer them are refused with one reply, 500 on an MTA and 502    *)
(* on an MSA, and are not handled: no handshake and no credential exchange  *)
(* starts, and from, to, msg and tls are unchanged.                        *)
C10_NotOfferedIsRefused ==
    [][\A v \in {V_AUTH, V_STARTTLS} :
          (Handles(v) /\ NotOffered(v))
            => /\ Len(wire') = Len(wire) + 1
               /\ wire'[Len(wire')].code = IF role = "MTA" THEN 500 ELSE 502
               /\ pc' = "cmd"
               /\ UNCHANGED <<from, to, msg, tls>>
      ]_vars

\* STARTTLS refused on an MSA whose connection is already under TLS
C10_Witness ==
    /\ role = "MSA"
    /\ JustHandled(V_STARTTLS)
    /\ tls
    /\ wire = <<Reply(502, " ", "Already in tls")>>

(* C11: the step in which the handshake of STARTTLS succeeds sets tls,      *)
(* leaves nothing in the line reader and leaves from unset, to empty and    *)
(* msg empty, whatever they held before.                                   *)
C11_HandshakeResets ==
    [][(pc = "handshake" /\ ~tls /\ tls')
          => /\ tls' = TRUE
             /\ rx' = <<>>
             /\ from' = nil
             /\ to' = <<>>
             /\ msg' = <<>>]_vars

\* the handshake has just succeeded
C11_Witness ==
    /\ JustHandled(V_STARTTLS)
    /\ tls
    /\ wire = <<Reply(220, " ", "Go ahead")>>
    /\ rx = <<>>
    /\ EnvelopeEmpty

(* C12: the step in which the handshake of STARTTLS fails writes the 550    *)
(* reply, leaves tls false and ends the session: the connection is closed   *)
(* and serve reads no further line.                                        *)
C12_HandshakeFailureTerminates ==
    [][(pc = "handshake" /\ ~tls')
          => /\ Answers(550, "Handshake error")
             /\ tls' = FALSE
             /\ closed'
             /\ pc' = "done"]_vars

\* the transcript holds no 235: no AUTH LOGIN exchange has succeeded so far
\* (in SpecScript wire is the whole transcript of the session)
NoAuthSucceeded == \A i \in 1..Len(wire) : wire[i].code # 235

(* C13: on an MSA, a MAIL command handled while no AUTH LOGIN exchange has  *)
(* succeeded leaves from unset and is not answered 250.                    *)
C13_MailNeedsAuth ==
    [][(role = "MSA" /\ Handles(V_MAIL) /\ NoAuthSucceeded)
          => /\ from' = nil
             /\ ~Answers(250, "OK")]_vars

\* the credentials are those of a user of the database
CredentialsValid(name, password) ==
    UserExists(name) /\ CheckPassword(Users[name], password)

\* this step is the session reading the next line of the client
ReadsLine == rx # <<>> /\ rx' = Tail(rx)

\* this step writes exactly one reply line, with this code
AnswersCode(code) ==
    /\ Len(wire') = Len(wire) + 1
    /\ SubSeq(wire', 1, Len(wire)) = wire
    /\ wire'[Len(wire')].code = code

(* C14: an AUTH LOGIN exchange runs in order: the step that starts it       *)
(* handles AUTH and writes 334 VXNlcm5hbWU6; the next line (valid base64)   *)
(* is read as the user name and answered 334 UGFzc3dvcmQ6; the line after   *)
(* it (valid base64) is read as the password and answered by one reply,     *)
(* 235 if the credentials are valid and 535 if they are not; neither line   *)
(* is handled as a command.                                                *)
C14_AuthLoginLegs ==
    [][/\ (pc # "authUser" /\ pc' = "authUser")
            => Handles(V_AUTH) /\ Answers(334, "VXNlcm5hbWU6")
       /\ (pc = "authUser" /\ ReadsLine /\ Base64Valid(Head(rx)))
            => /\ Answers(334, "UGFzc3dvcmQ6")
               /\ pc' = "authPass"
               /\ UNCHANGED <<line, closed, from, to, msg, tls>>
       /\ (pc # "authPass" /\ pc' = "authPass") => pc = "authUser"
       /\ (pc = "authPass" /\ ReadsLine /\ Base64Valid(Head(rx)))
            => /\ AnswersCode(IF CredentialsValid(username,
                                                  DecodeString(Head(rx)))
                              THEN 235 ELSE 535)
               /\ pc' = "cmd"
               /\ UNCHANGED <<line, closed, from, to, msg, tls>>]_vars

(* C15: the step that reads the password of an AUTH LOGIN exchange whose    *)
(* credentials are not those of a user writes the one reply 535 and leaves  *)
(* the session not authenticated; a step writes a 235 reply only when it    *)
(* reads the password of valid credentials.                                *)
C15_InvalidCredentialsRefused ==
    [][/\ (/\ pc = "authPass"
           /\ ReadsLine
           /\ Base64Valid(Head(rx))
           /\ ~CredentialsValid(username, DecodeString(Head(rx))))
            => /\ AnswersCode(535)
               /\ auth' = FALSE
       /\ (Len(wire') > Len(wire) /\ wire'[Len(wire')].code = 235)
            => /\ pc = "authPass"
               /\ ReadsLine
               /\ CredentialsValid(username, DecodeString(Head(rx)))]_vars

(* C16: the step that reads a user name or a password that is not valid     *)
(* base64 writes the one reply 500 and abandons the exchange: the session   *)
(* is open and back at reading commands, from, to, msg and tls are          *)
(* unchanged and the session is not authenticated.                         *)
C16_NotBase64Abandons ==
    [][(pc \in {"authUser", "authPass"} /\ ReadsLine /\ ~Base64Valid(Head(rx)))
          => /\ Answers(500, "Not base64")
             /\ pc' = "cmd"
             /\ closed' = FALSE
             /\ UNCHANGED <<from, to, msg, tls>>
             /\ auth' = FALSE]_vars

(* C17: the step that handles an AUTH command with one argument that is     *)
(* not LOGIN in any case of its letters writes the one reply 504 and        *)
(* starts no exchange: the session is open and back at reading commands,    *)
(* and from, to, msg, tls and auth are unchanged.                          *)
C17_AuthOtherMechanism ==
    [][(/\ Handles(V_AUTH)
        /\ Len(parseLine(Head(rx)).args) = 1
        /\ ToUpper(parseLine(Head(rx)).args[1]) # <<"L","O","G","I","N">>)
          => /\ Answers(504, "Not supported")
             /\ pc' = "cmd"
             /\ closed' = FALSE
             /\ UNCHANGED <<from, to, msg, tls, auth>>]_vars

V_NOOP == <<"N","O","O","P">>
V_VRFY == <<"V","R","F","Y">>

\* the verbs serve answers with 502 Command not implemented
NotImplementedVerbs ==
    {V_VRFY, <<"E","X","P","N">>, <<"S","E","N","D">>, <<"S","O","M","L">>,
     <<"S","A","M","L">>}

\* the verbs serve has a case for
CoreVerbs ==
    {<<"H","E","L","O">>, V_EHLO, V_MAIL, V_RCPT, V_DATA, V_RSET, V_NOOP,
     V_QUIT} \cup NotImplementedVerbs

\* v is neither a core command nor an extension of the role
UnknownVerb(v) ==
    /\ v \notin CoreVerbs
    /\ role = "MTA" \/ v \notin {V_AUTH, V_STARTTLS}

(* C18: in every state, the step that handles NOOP answers 250 OK, the      *)
(* step that handles VRFY, EXPN, SEND, SOML or SAML answers 502, the step   *)
(* that handles a verb that is neither a core command nor an extension of   *)
(* the role answers 500 Command unrecognized, and each of them leaves       *)
(* from, to, msg and tls unchanged.                                        *)
C18_NoEffectCommands ==
    [][/\ Handles(V_NOOP)
            => Answers(250, "OK") /\ UNCHANGED <<from, to, msg, tls>>
       /\ (\E v \in NotImplementedVerbs : Handles(v))
            => /\ Answers(502, "Command not implemented")
               /\ UNCHANGED <<from, to, msg, tls>>
       /\ (pc = "cmd" /\ ReadsLine /\ UnknownVerb(parseLine(Head(rx)).verb))
            => /\ Answers(500, "Command unrecognized")
               /\ UNCHANGED <<from, to, msg, tls>>]_vars

\* NOOP answered under TLS with a sender and a recipient in the envelope
C18_Witness ==
    /\ JustHandled(V_NOOP)
    /\ wire = <<Reply(250, " ", "OK")>>
    /\ from # nil
    /\ Len(to) >= 1
    /\ tls

(* C19: the step in which serve reads a blank line, one that holds only     *)
(* its line end, writes no reply and changes nothing of the session.       *)
C19_BlankLineIgnored ==
    [][(pc = "cmd" /\ ReadsLine /\ Head(rx) \in {<<CR, LF>>, <<LF>>})
          => UNCHANGED <<wire, pc, closed, from, to, msg, tls>>]_vars

(* C20: the step in which serve reads a command line longer than            *)
(* MaxCmdLine octets writes the one reply 500, leaves from, to, msg and     *)
(* tls unchanged and leaves the session reading its next command right      *)
(* after that line.                                                        *)
C20_LineTooLong ==
    [][(pc = "cmd" /\ ReadsLine /\ Len(Head(rx)) > MaxCmdLine)
          => /\ AnswersCode(500)
             /\ pc' = "cmd"
             /\ UNCHANGED <<from, to, msg, tls>>]_vars

\* where the first occurrence of delims in bs ends; 0 if there is none
DelimEnd(bs, delims) ==
    LET ends == {k \in Len(delims)..Len(bs) :
                    SubSeq(bs, k - Len(delims) + 1, k) = delims}
    IN  IF ends = {} THEN 0 ELSE Min(ends)

(* C21: ReadUntill returns the line up to and with the delimiter, and no    *)
(* error, when the delimiter ends within the first maxBytes bytes of the    *)
(* stream (also as byte number maxBytes); else ErrLtl when the stream       *)
(* holds maxBytes bytes or more; else ErrNoDelims when the stream ends      *)
(* there, and the error of the transport when it fails there.              *)
C21_ReadUntillOutcome ==
    ret # <<>> =>
        LET bs == inp.r.bytes
            k == DelimEnd(bs, inp.delims)
        IN  IF k > 0 /\ k <= inp.maxBytes
            THEN ret = [result |-> SubSeq(bs, 1, k), err |-> "nil"]
            ELSE IF Len(bs) >= inp.maxBytes THEN ret.err = "ErrLtl"
            ELSE IF inp.r.end = "EOF" THEN ret.err = "ErrNoDelims"
            ELSE ret.err = inp.r.end

\* a body line as it was before dot-stuffing: less its first character if
\* that is a '.'
UnstuffLine(l) == IF l # <<>> /\ l[1] = "." THEN Tail(l) ELSE l

(* C22: the step that reads a body line other than the end of the body      *)
(* appends it to msg with one leading '.' removed if it starts with '.',    *)
(* so that the body at the end of DATA is the transmitted lines, unstuffed, *)
(* without the terminating line.                                           *)
C22_BodyUnstuffed ==
    [][(pc = "data" /\ ReadsLine /\ ~IsEndOfData(Head(rx)))
          => msg' = msg \o UnstuffLine(Head(rx))]_vars

\* the body a sequence of dot-stuffed lines stands for
RECURSIVE Unstuffed(_)
Unstuffed(ls) ==
    IF ls = <<>> THEN <<>> ELSE UnstuffLine(Head(ls)) \o Unstuffed(Tail(ls))

(* C23: a body sent as lines that end in <CR><LF>, dot-stuffed and ended    *)
(* by the line '.', is decoded by the body reader to the same lines with    *)
(* their <CR><LF> kept, less the stuffed dots (..foo<CR><LF> .bar<CR><LF>   *)
(* .<CR><LF> to .foo<CR><LF>bar<CR><LF>), and the reader then reports the   *)
(* end of the body.                                                        *)
C23_LineEndsPreserved ==
    (ret # <<>> /\ inp.stuffed)
        => ret = [body |-> Unstuffed(inp.lines), err |-> "EOF"]

(* C24: the step that reads a line in the DATA phase ends the body if the   *)
(* line is .<CR><LF>, .<CR> or .<LF>: from, to and msg are cleared (the     *)
(* line is in no body), 250 OK is written and the session reads commands    *)
(* again; any other line is appended to msg and the DATA phase goes on.     *)
C24_EndOfData ==
    [][(pc = "data" /\ ReadsLine)
          => IF Head(rx) \in {<<".", CR, LF>>, <<".", CR>>, <<".", LF>>}
             THEN /\ from' = nil
                  /\ to' = <<>>
                  /\ msg' = <<>>
                  /\ Answers(250, "OK")
                  /\ pc' = "cmd"
             ELSE /\ msg' = msg \o Head(rx)
                  /\ pc' = "data"
                  /\ UNCHANGED <<wire, from, to>>]_vars

\* a body of one line has been ended by .<CR> and the end of the stream
C24_Witness ==
    /\ pc = "cmd"
    /\ data = L_DOTCR
    /\ msg = <<>>
    /\ LastReplyIs(250, "OK")
    /\ eof
    /\ EnvelopeEmpty

(* C25: every reply line on the wire, the only line of a reply or a line    *)
(* of a multi-line reply, is written as bytes that start with three         *)
(* decimal digits and end with <CR><LF>.                                    *)
C25_ReplyLineFormat ==
    \A i \in 1..Len(wire) :
        LET b == Fprintf(wire[i])
        IN  /\ Len(b) >= 5
            /\ \A k \in 1..3 : b[k] \in Digits
            /\ b[Len(b) - 1] = CR
            /\ b[Len(b)] = LF

\* the two lines of an EHLO reply are on the wire, one of each form
C25_Witness ==
    /\ JustHandled(V_EHLO)
    /\ Len(wire) = 2
    /\ wire[1].sep = "-"
    /\ wire[2].sep = " "

(* C26: the step that handles EHLO writes the multi-line reply with code    *)
(* 250 and the texts t = hostname followed by the capabilities of the       *)
(* server's role: Len(t) lines in the order of t, every line but the last   *)
(* as 250-t[i]<CR><LF> and the last as 250 t[n]<CR><LF>.                     *)
C26_MultiLineReply ==
    [][Handles(V_EHLO)
          => LET t == <<Hostname>> \o extensions
                 n == Len(t)
             IN  /\ Len(wire') = Len(wire) + n
                 /\ SubSeq(wire', 1, Len(wire)) = wire
                 /\ \A i \in 1..n :
                       Fprintf(wire'[Len(wire) + i])
                         = <<"2", "5", "0", IF i < n THEN "-" ELSE " ",
                             t[i], CR, LF>>]_vars

\* an EHLO reply of three lines: the hostname and two capabilities
C26_Witness ==
    /\ JustHandled(V_EHLO)
    /\ Len(wire) = 3
    /\ wire[1].text = Hostname
    /\ wire[3].text = "AUTH LOGIN"

(* C27: every step in which serve reads a command line on an open            *)
(* connection writes at least one reply line behind the replies that are    *)
(* already on the wire, before the next line is read: no command is          *)
(* consumed without a reply, and the replies stand in the order of their     *)
(* commands.                                                               *)
C27_EveryCommandAnswered ==
    [][(pc = "cmd" /\ ReadsLine /\ ~closed)
          => /\ Len(wire') > Len(wire)
             /\ SubSeq(wire', 1, Len(wire)) = wire]_vars

\* the lines of the script s that have been read when rest is still to come
Consumed(s, rest) == SubSeq(s, 1, Len(s) - Len(rest))

\* the script s has STARTTLS among the lines read when rest is still to come
AskedForTLS(s, rest) ==
    \E i \in 1..Len(Consumed(s, rest)) : Consumed(s, rest)[i] = L_STARTTLS

\* two sessions that have read the same input so far, the outcome of the
\* handshake with it, and stand at the same place of serve
SameInput ==
    /\ Consumed(loc[1].script, loc[1].rx) = Consumed(script, rx)
    /\ (loc[1].rx = <<>>) = (rx = <<>>)
    /\ loc[1].eof = eof
    /\ loc[1].pc = pc
    /\ loc[1].tls = tls

(* C28: of two concurrent sessions of one server, however their steps are   *)
(* interleaved: no step writes the Server; a step of one session leaves     *)
(* the conn and the connection of the other one as they were, and the       *)
(* change from one goroutine to the other leaves both; a session is under   *)
(* TLS only if it has read STARTTLS itself, whatever the other one did;     *)
(* and two sessions that have read the same input so far (the same lines,   *)
(* the same end of stream, the same outcome of the handshake) and stand at  *)
(* the same place of serve have the same envelope (from, to, msg) and the   *)
(* same replies on the wire, whatever else each of them is going to read.   *)
C28_SessionsIndependent ==
    /\ [][/\ UNCHANGED <<role, tlsConfig>>
          /\ IF inp' = inp
             THEN UNCHANGED loc
             ELSE loc'[1] = Parked /\ Parked' = loc[1]]_vars
    /\ [](/\ tls => AskedForTLS(script, rx)
          /\ loc[1].tls => AskedForTLS(loc[1].script, loc[1].rx)
          /\ SameInput => /\ loc[1].from = from
                          /\ loc[1].to = to
                          /\ loc[1].msg = msg
                          /\ loc[1].wire = wire)

\* one session has set a sender, asked for TLS and is under TLS with its
\* envelope empty, while the other one, on the same server, is not under
\* TLS and waits for the body of a message with its sender and recipient
\* set, their steps interleaved
C28_Witness ==
    /\ tls
    /\ from = nil
    /\ AskedForTLS(script, rx)
    /\ ~loc[1].tls
    /\ loc[1].pc = "data"
    /\ loc[1].from # nil
    /\ loc[1].to # <<>>
    /\ Len(loc[1].wire) = 6

(* C29: the argument of MAIL or RCPT, with one space between FROM: or TO:   *)
(* and the '<' or with none, parses through parseLine and parseFROM or      *)
(* parseTO with no error to the local-part and the domain it was written    *)
(* with, the same with the space as without it.                            *)
C29_SpaceBeforePath ==
    ret # <<>>
        => /\ ret.err = "nil"
           /\ ret.email = [Local |-> inp.local, Domain |-> inp.domain]

(* C30: Validate accepts an address exactly when its local-part has at      *)
(* most 64 octets, its domain at most 253 and the two together at most      *)
(* 254; of the reasons it gives for a refusal, "Local too long" comes       *)
(* before "Domain too long" and that before "MailAddress too long".         *)
C30_ValidateLimits ==
    ret # <<>>
        => LET l == Len(inp.Local)
               d == Len(inp.Domain)
           IN  /\ ret.valid = (l <= 64 /\ d <= 253 /\ l + d <= 254)
               /\ l > 64 => ret.msg = "Local too long"
               /\ (l <= 64 /\ d > 253) => ret.msg = "Domain too long"
               /\ (l <= 64 /\ d <= 253 /\ l + d > 254)
                     => ret.msg = "MailAddress too long"

\* an address at every limit at once, 64 and 190 octets, has been accepted
C30_Witness ==
    /\ ret # <<>>
    /\ Len(inp.Local) = 64
    /\ Len(inp.Domain) = 190
    /\ ret.valid

(* C31: a call of Add with a name that is not in the database returns no    *)
(* error, stores that user under its name and leaves the other users        *)
(* alone; a call of Add with a name that is in the database returns an      *)
(* error and leaves every stored user as it was; a call of Get returns the  *)
(* user stored under the name, or an error where none is stored, as it is   *)
(* for every name that was never added.                                    *)
C31_AddOnceThenGet ==
    [][/\ (inp' # <<>> /\ inp'[1] = "Add")
            => LET user == inp'[2]
               IN  IF user.Name \in DOMAIN loc[2]
                   THEN /\ ret'[1] # "nil"
                        /\ loc'[2] = loc[2]
                   ELSE /\ ret' = <<"nil">>
                        /\ DOMAIN loc'[2] = DOMAIN loc[2] \cup {user.Name}
                        /\ loc'[2][user.Name] = user
                        /\ \A n \in DOMAIN loc[2] : loc'[2][n] = loc[2][n]
       /\ (inp' # <<>> /\ inp'[1] = "Get")
            => /\ loc' = loc
               /\ IF inp'[2] \in DOMAIN loc[2]
                  THEN ret' = <<"nil", loc[2][inp'[2]]>>
                  ELSE ret'[1] # "nil"]_vars

\* Add of a user whose name is taken, with another password, has failed
C31_Witness ==
    /\ inp # <<>>
    /\ inp[1] = "Add"
    /\ ret[1] = "User already exists"
    /\ loc[2][inp[2].Name] # inp[2]
    /\ Cardinality(DOMAIN loc[2]) = 2

\* the verb of the command c
CmdVerb(c) ==
    CASE c.type = "HeloCmd" -> <<"H","E","L","O">>
      [] c.type = "EhloCmd" -> V_EHLO
      [] c.type = "QuitCmd" -> V_QUIT
      [] c.type = "MailCmd" -> V_MAIL
      [] c.type = "RcptCmd" -> V_RCPT
      [] c.type = "DataCmd" -> V_DATA
      [] c.type = "RsetCmd" -> V_RSET
      [] c.type = "NoopCmd" -> V_NOOP
      [] c.type = "VrfyCmd" -> V_VRFY
      [] c.type = "ExpnCmd" -> <<"E","X","P","N">>
      [] c.type = "SendCmd" -> <<"S","E","N","D">>
      [] c.type = "SomlCmd" -> <<"S","O","M","L">>
      [] c.type = "SamlCmd" -> <<"S","A","M","L">>
      [] c.type = "UnknownCmd" -> c.Cmd
      [] c.type = "InvalidCmd" -> c.Cmd

\* the arguments of the command c
CmdArgs(c) ==
    IF c.type \in {"HeloCmd", "EhloCmd"} THEN <<c.Domain>>
    ELSE IF c.type = "VrfyCmd" THEN <<c.Param>>
    ELSE IF c.type = "ExpnCmd" THEN <<c.ListName>>
    ELSE IF c.type = "MailCmd"
    THEN <<<<"F","R","O","M",":","<">> \o c.From.Local \o <<"@">>
             \o c.From.Domain \o <<">">>>>
    ELSE IF c.type = "RcptCmd"
    THEN <<<<"T","O",":","<">> \o c.To.Local \o <<"@">>
             \o c.To.Domain \o <<">">>>>
    ELSE IF c.type = "InvalidCmd" THEN Split(c.Info)
    ELSE <<>>

(* C32: parseLine applied to the String() form of a command gives back      *)
(* that command: its verb, and its arguments with the values of its         *)
(* fields.                                                                 *)
C32_ParseOfString ==
    ret # <<>> => ret[1] = [verb |-> CmdVerb(inp), args |-> CmdArgs(inp)]

(* C33: SkipTillNewline returns, in one of two ways: where the bytes that   *)
(* are still to be read hold a line feed it returns nil, the bytes up to    *)
(* and with the first line feed are gone and every byte behind it is        *)
(* still to be read; where they hold none it returns the error the stream   *)
(* ends with.  It does the same for GetCmd, which calls it behind the 512   *)
(* bytes of a line with no line feed in them: GetCmd returns ErrLtl and     *)
(* every byte behind the first line feed is still to be read, or it         *)
(* returns the error the stream ends with.                                 *)
C33_SkipTillNewline ==
    LET all == inp.buf \o inp.r.bytes
        k == Index(all, LF)
        rest == loc.buf \o loc.r.bytes
    IN  /\ Len(ret) = 1
            => IF k > 0
               THEN ret[1] = "nil" /\ rest = SubSeq(all, k + 1, Len(all))
               ELSE ret[1] = inp.r.end
        /\ (Len(ret) = 2 /\ ret[2] # "nil")
            => IF k > 0
               THEN ret[2] = "ErrLtl" /\ rest = SubSeq(all, k + 1, Len(all))
               ELSE ret[2] = inp.r.end

\* a line of more than two LIMITs has been skipped, the command behind it
\* is still to be read
C33_Witness ==
    /\ Len(ret) = 1
    /\ ret[1] = "nil"
    /\ Len(inp.r.bytes) > 2 * LIMIT + 2
    /\ loc.buf \o loc.r.bytes = <<"a", LF>>

(* C34: in the serve that handles DATA inline, the step that handles DATA   *)
(* while a sender is set and no recipient has been accepted writes the one  *)
(* reply 503 "Need RCPT before DATA" and nothing else, goes on reading      *)
(* commands, so that no body line is read, and leaves from, to and msg as   *)
(* they were.                                                              *)
C34_InlineDataNeedsRcpt ==
    [][(Handles(V_DATA) /\ role = "inline" /\ from # nil /\ to = <<>>)
          => /\ Answers(503, "Need RCPT before DATA")
             /\ pc' = "cmd"
             /\ UNCHANGED <<from, to, msg>>]_vars

(* C35: the line ReadUntill returns with no error ends at the first place   *)
(* where the delimiter occurs in the stream: it is the bytes up to and      *)
(* with that occurrence, so that it holds the delimiter once, at its end,   *)
(* also where the first byte of the delimiter stands twice in front of      *)
(* the rest of it.                                                         *)
C35_EndsAtFirstDelimiter ==
    (ret # <<>> /\ ret.err = "nil")
        => LET k == DelimEnd(inp.r.bytes, inp.delims)
           IN  /\ k > 0
               /\ ret.result = SubSeq(inp.r.bytes, 1, k)

\* a line read through the UntillReader u from the stream r one byte at a
\* time: the bytes and the error of the last Read
RECURSIVE ReadByByte(_, _, _)
ReadByByte(u, r, result) ==
    LET x == UntillReader_Read(u, r, 1)
    IN  IF x.err = "nil" THEN ReadByByte(x.u, x.r, result \o x.p)
        ELSE [result |-> result \o x.p, err |-> x.err, r |-> x.r]

(* C36: a line read through an UntillReader with buffers of any sizes, the  *)
(* delimiter split between two calls of Read or not, comes out as the same  *)
(* bytes, with the same error of the last Read and the same bytes left in   *)
(* the stream, as the line read one byte at a time.                         *)
C36_BufferSizeIndependent ==
    ret # <<>>
        => LET one == ReadByByte([Delims |-> inp.delims, N |-> inp.maxBytes,
                                  delimsRead |-> 0], inp.r, <<>>)
           IN  /\ ret.result = one.result
               /\ ret.err = one.err
               /\ loc.r = one.r

\* a line has been read whose delimiter <CR><LF> lay across two buffers of
\* BufLen bytes
C36_Witness ==
    /\ ret # <<>>
    /\ ret.err = "EOF"
    /\ inp.sizes = <<BufLen>>
    /\ Len(ret.result) = BufLen + 1
    /\ ret.result[BufLen] = CR
    /\ loc.calls = 3

(* C37: at every point of a call of ReadUntill, and so in each of its       *)
(* outcomes, the bytes taken from the reader are the bytes of the result    *)
(* and are at most maxBytes, and the bytes behind them are still in the     *)
(* reader for the next read; the string returned is that result.            *)
C37_AtMostMaxBytes ==
    inp # <<>>
        => /\ Len(loc.result) <= inp.maxBytes
           /\ loc.result \o loc.r.bytes = inp.r.bytes
           /\ ret # <<>> => ret.result = loc.result

\* ReadUntill has given up with ErrLtl after maxBytes bytes, and the rest
\* of the stream is still there
C37_Witness ==
    /\ ret # <<>>
    /\ ret.err = "ErrLtl"
    /\ inp.maxBytes > BufLen
    /\ Len(ret.result) = inp.maxBytes
    /\ Len(loc.r.bytes) >= 2

(* C38: a body read through a DataReader with a buffer of any size comes    *)
(* out, call after call of Read, as the same bytes and with the same last   *)
(* error as in one decoding pass over the stream: a '.' behind the end of   *)
(* a buffer, in the middle of a line, is neither stripped nor taken for     *)
(* the terminating line.                                                   *)
C38_ChunkingIndependent ==
    ret # <<>>
        => LET pass == DotReader_Read(inp.r, "BeginLine", <<>>,
                                      Len(inp.r.bytes) + 1)
           IN  /\ ret.body = pass.p
               /\ ret.err = pass.err

(* C39: every call of Read on a DataReader that has returned the end of     *)
(* the body returns no bytes and the end of the body again, and takes       *)
(* nothing from the stream: what stands behind the terminating line stays   *)
(* there for the reader of commands.                                       *)
C39_EndOfBodySticks ==
    [][(ret # <<>> /\ ret.err = "EOF" /\ loc' # loc)
          => /\ loc'.late = <<<<>>, "EOF">>
             /\ loc'.r = loc.r]_vars

(* C40: the step in which a STARTTLS handshake succeeds leaves nothing to   *)
(* be read that was written in plaintext: the lines that conn.br had        *)
(* buffered behind STARTTLS are gone, and the session reads its next        *)
(* command from the encrypted stream, where the client writes from then     *)
(* on.                                                                     *)
C40_PlaintextDiscarded ==
    [][(~tls /\ tls') => (rx' = <<>> /\ pc' = "cmd")]_vars

\* the client wrote QUIT in plaintext behind STARTTLS; the handshake has
\* succeeded, and the session is open and has not handled the QUIT
C40_Witness ==
    /\ tls
    /\ inp = <<L_QUIT>>
    /\ ~closed
    /\ pc = "cmd"
    /\ rx = <<>>
    /\ line = L_STARTTLS

====
